---- MODULE Spec2Model ----
(***************************************************************************)
(* A model of photocull: the trash ledger of the backend                   *)
(* (src/backend/src/index.js), the DeletionService registry of the         *)
(* frontend (src/frontend/src/utils/qualityAnalysis.ts), the directory     *)
(* scanner (src/backend/src/scanner.js), the duplicate clusterer           *)
(* (src/frontend/src/utils/duplicateDetection.ts) and the preview scanner  *)
(* (src/frontend/src/utils/rawThumbnailExtractor.ts).                      *)
(***************************************************************************)
EXTENDS Integers, Sequences, FiniteSets, TLC

VARIABLES
    files,                  \* the photo files on disk: path -> content
    sidecars,               \* the *.metadata.json files on disk: trash path -> metadata
    currentScanDirectory,   \* index.js: let currentScanDirectory = null
    now,                    \* the last value Date.now() returned
    dsDeletedFiles,         \* DeletionService.deletedFiles: id -> DeletedFile
    resp,                   \* the last HTTP response of a trash endpoint
    faultCount,             \* the filesystem calls that have failed so far
    requestCount,           \* the HTTP requests the server has received so far
    isScanning,             \* DirectoryScanner.isScanning
    progress,               \* DirectoryScanner.progress
    thumbnailsDir,          \* DirectoryScanner.thumbnailsDir
    scans,                  \* the POST /api/scan requests: slot -> position of the call
    hashes,                 \* the fingerprint map: sequence of [id, hash] in insertion order
    threshold,              \* the similarity threshold of the last clustering
    groups,                 \* the result of the last findDuplicateGroups call
    analyzed,               \* detectDuplicatesInAnalyzableFiles: how each file was handled so far
    hash1, hash2,           \* the arguments of a calculateHammingDistance call
    distance,               \* its result
    fileFormat,             \* getRawFileInfo(file).format of the RAW file being read
    rawData,                \* the bytes of the RAW file being read
    extractedJpeg,          \* extractEmbeddedJpeg: let extractedJpeg
    photoList,              \* App: the ids of the photos state
    alert,                  \* the last message PhotoGallery showed with alert()
    cachedHashes,           \* App: the cachedHashes state, [id, hash] in insertion order
    appThreshold,           \* App: the similarityThreshold state
    flags,                  \* App: analysis.duplicateGroup of each photo, 0 when not a duplicate
    timers,                 \* App: the re-analysis callbacks setTimeout has pending
    luminance,              \* calculateImageHash: the grey values of the 9x8 image
    imageHash,              \* calculateImageHash: the value it resolves with
    fileList,               \* groupRawJpegPairs: the files argument
    pairing                 \* groupRawJpegPairs: the value it returns

trashVars == <<files, sidecars, now, dsDeletedFiles, resp>>
scanVars == <<isScanning, progress, thumbnailsDir, scans>>
clusterVars == <<hashes, threshold, groups, analyzed>>
hammingVars == <<hash1, hash2, distance>>
previewVars == <<fileFormat, rawData, extractedJpeg>>
galleryVars == <<photoList, alert>>
appVars == <<cachedHashes, appThreshold, flags, timers>>
fingerprintVars == <<luminance, imageHash>>
pairingVars == <<fileList, pairing>>
frontVars == <<appVars, fingerprintVars, pairingVars>>
vars == <<files, sidecars, currentScanDirectory, now, dsDeletedFiles, resp,
          faultCount, requestCount,
          isScanning, progress, thumbnailsDir, scans,
          hashes, threshold, groups, analyzed, hash1, hash2, distance,
          fileFormat, rawData, extractedJpeg, photoList, alert,
          cachedHashes, appThreshold, flags, timers, luminance, imageHash,
          fileList, pairing>>

----------------------------------------------------------------------------
(* Bounds *)

MaxClock == 2       \* Date.now() takes the values 1..MaxClock
MaxBatch == 2       \* longest list of photos / file ids in one request
MaxFaults == 1      \* filesystem calls that fail in one behaviour
MaxRequests == 3    \* HTTP requests in one behaviour

----------------------------------------------------------------------------
(* Paths, photo records *)

Null == "null"
Roots == {"R1", "R2"}
TrashDirName == ".trash"
MetadataSuffix == ".metadata.json"

Path(root, dir, ts, name) == [root |-> root, dir |-> dir, ts |-> ts, name |-> name]
NoPath == Path("", "", 0, <<>>)

\* two photos with the same file name in two directories of the project R1
F1 == Path("R1", "a", 0, <<"x.jpg">>)
F2 == Path("R1", "b", 0, <<"x.jpg">>)

\* the records the client holds; a file name is a sequence of tokens, a
\* parenthetical token being a display suffix added by the pairing logic
ParenTokens == {" (RAW+JPEG)"}
Photos ==
    { [id |-> "p1", path |-> F1, filename |-> <<"x.jpg">>, size |-> 3],
      [id |-> "p2", path |-> F2, filename |-> <<"x.jpg", " (RAW+JPEG)">>, size |-> 5],
      [id |-> "p3", path |-> NoPath, filename |-> <<"y.jpg">>, size |-> 0] }
PhotoIds == {p.id : p \in Photos}
PhotoOf(id) == CHOOSE p \in Photos : p.id = id

\* sequences without repetition over S, of length 1..n
RECURSIVE SeqsUpTo(_, _)
SeqsUpTo(S, n) ==
    IF n = 0 THEN {<<>>}
    ELSE LET shorter == SeqsUpTo(S, n - 1)
         IN shorter \cup { Append(s, x) : s \in shorter, x \in S }
Range(s) == { s[i] : i \in DOMAIN s }
Batches(S) == { s \in SeqsUpTo(S, MaxBatch) : Len(s) >= 1 /\ Cardinality(Range(s)) = Len(s) }

----------------------------------------------------------------------------
(* The filesystem calls *)

FsExists(fs, p) == p \in DOMAIN fs

\* fs.rename(from, to): an existing file at `to` is replaced
FsRename(fs, from, to) ==
    [q \in (DOMAIN fs \ {from}) \cup {to} |-> IF q = to THEN fs[from] ELSE fs[q]]

\* fs.writeFile(p, data)
FsWrite(fs, p, data) ==
    [q \in DOMAIN fs \cup {p} |-> IF q = p THEN data ELSE fs[q]]

\* fs.unlink(p)
FsUnlink(fs, p) == [q \in DOMAIN fs \ {p} |-> fs[q]]

----------------------------------------------------------------------------
(* Backend: the trash ledger, src/backend/src/index.js *)

TrashPath(root, ts, name) == Path(root, TrashDirName, ts, name)

\* photo.filename.replace(/\s*\([^)]*\)/g, ""): the parenthetical tokens go
IsPlainToken(tok) == tok \notin ParenTokens
StripParens(filename) == SelectSeq(filename, IsPlainToken)

\* getTrashDirectory(): join(currentScanDirectory, ".trash") throws a
\* TypeError when no scan directory has been stored
TrashDirAvailable(csd) == csd # Null

\* fs.readdir(trashDir): the names in the trash directory of `root`
ReadDir(fs, sc, root) ==
    { [ts |-> p.ts, name |-> p.name, ext |-> ""] :
        p \in { q \in DOMAIN fs : q.root = root /\ q.dir = TrashDirName } }
    \cup
    { [ts |-> p.ts, name |-> p.name, ext |-> MetadataSuffix] :
        p \in { q \in DOMAIN sc : q.root = root /\ q.dir = TrashDirName } }

\* getAllTrashFiles(): the parsed sidecars of the current trash directory,
\* each with its trashDir added; an error yields the empty list
getAllTrashFiles(fs, sc, csd) ==
    IF ~TrashDirAvailable(csd) THEN {}
    ELSE { LET metadata == sc[TrashPath(csd, e.ts, e.name)]
           IN [id |-> metadata.id, originalPath |-> metadata.originalPath,
               filename |-> metadata.filename, size |-> metadata.size,
               tempPath |-> metadata.tempPath, trashDir |-> csd] :
           e \in { d \in ReadDir(fs, sc, csd) : d.ext = MetadataSuffix } }

\* the sidecar a handler unlinks for an entry:
\* join(metadata.trashDir, `${metadata.tempPath.split("/").pop()}.metadata.json`)
MetadataPathOf(metadata) ==
    TrashPath(metadata.trashDir, metadata.tempPath.ts, metadata.tempPath.name)

MoveFaults == {"none", "rename", "write"}

\* the loop of move-to-trash with the sidecar written before the file is
\* moved: a failing rename leaves the sidecar behind
RECURSIVE MoveLoopSidecarFirst(_, _, _, _, _, _, _, _)
MoveLoopSidecarFirst(photos, i, fs, sc, deletedFiles, csd, tss, faults) ==
    IF i > Len(photos)
    THEN [files |-> fs, sidecars |-> sc, deletedFiles |-> deletedFiles]
    ELSE
      LET photo == photos[i]
          trashPath == TrashPath(csd, tss[i], StripParens(photo.filename))
          metadata == [id |-> photo.id, originalPath |-> photo.path,
                       filename |-> StripParens(photo.filename), size |-> photo.size,
                       tempPath |-> trashPath]
      IN  IF \/ photo.path = NoPath \/ ~FsExists(fs, photo.path)
             \/ ~TrashDirAvailable(csd) \/ faults[i] = "write"
          THEN MoveLoopSidecarFirst(photos, i + 1, fs, sc, deletedFiles, csd, tss, faults)
          ELSE IF faults[i] = "rename"
          THEN MoveLoopSidecarFirst(photos, i + 1, fs, FsWrite(sc, trashPath, metadata),
                        Append(deletedFiles, metadata), csd, tss, faults)
          ELSE MoveLoopSidecarFirst(photos, i + 1, FsRename(fs, photo.path, trashPath),
                        FsWrite(sc, trashPath, metadata),
                        Append(deletedFiles, metadata), csd, tss, faults)

\* the loop of move-to-trash with a failure ending the batch: the records
\* after a record that cannot be moved are left alone
RECURSIVE MoveLoopAbortOnFailure(_, _, _, _, _, _, _, _)
MoveLoopAbortOnFailure(photos, i, fs, sc, deletedFiles, csd, tss, faults) ==
    IF i > Len(photos)
    THEN [files |-> fs, sidecars |-> sc, deletedFiles |-> deletedFiles]
    ELSE
      LET photo == photos[i]
          trashPath == TrashPath(csd, tss[i], StripParens(photo.filename))
          metadata == [id |-> photo.id, originalPath |-> photo.path,
                       filename |-> StripParens(photo.filename), size |-> photo.size,
                       tempPath |-> trashPath]
      IN  IF \/ photo.path = NoPath \/ ~FsExists(fs, photo.path)
             \/ ~TrashDirAvailable(csd) \/ faults[i] = "rename"
          THEN [files |-> fs, sidecars |-> sc, deletedFiles |-> deletedFiles]
          ELSE IF faults[i] = "write"
          THEN [files |-> FsRename(fs, photo.path, trashPath), sidecars |-> sc,
                deletedFiles |-> Append(deletedFiles, metadata)]
          ELSE MoveLoopAbortOnFailure(photos, i + 1, FsRename(fs, photo.path, trashPath),
                        FsWrite(sc, trashPath, metadata),
                        Append(deletedFiles, metadata), csd, tss, faults)

\* POST /api/photos/move-to-trash, the loop over req.body.photos.
\* tss[i] is the value of Date.now() for photo i, faults[i] the filesystem
\* call that fails for it.
RECURSIVE MoveLoop(_, _, _, _, _, _, _, _)
MoveLoop(photos, i, fs, sc, deletedFiles, csd, tss, faults) ==
    IF i > Len(photos)
    THEN [files |-> fs, sidecars |-> sc, deletedFiles |-> deletedFiles]
    ELSE
      LET photo == photos[i]
          absolutePath == photo.path
          originalFilename == StripParens(photo.filename)
          trashPath == TrashPath(csd, tss[i], originalFilename)
          metadata == [id |-> photo.id, originalPath |-> absolutePath,
                       filename |-> originalFilename, size |-> photo.size,
                       tempPath |-> trashPath]
      IN  IF absolutePath = NoPath                    \* continue
          THEN MoveLoop(photos, i + 1, fs, sc, deletedFiles, csd, tss, faults)
          ELSE IF ~FsExists(fs, absolutePath)         \* fs.access fails: continue
          THEN MoveLoop(photos, i + 1, fs, sc, deletedFiles, csd, tss, faults)
          ELSE IF ~TrashDirAvailable(csd)             \* getTrashDirectory throws
          THEN MoveLoop(photos, i + 1, fs, sc, deletedFiles, csd, tss, faults)
          ELSE IF faults[i] = "rename"                \* fs.rename throws
          THEN MoveLoop(photos, i + 1, fs, sc, deletedFiles, csd, tss, faults)
          ELSE IF faults[i] = "write"                 \* fs.writeFile throws
          THEN MoveLoop(photos, i + 1, FsRename(fs, absolutePath, trashPath), sc,
                        Append(deletedFiles, metadata), csd, tss, faults)
          ELSE MoveLoop(photos, i + 1, FsRename(fs, absolutePath, trashPath),
                        FsWrite(sc, trashPath, metadata),
                        Append(deletedFiles, metadata), csd, tss, faults)

RestoreFaults == {"none", "rename", "unlink"}

\* the loop of restore-from-trash with an unknown id ending the batch
RECURSIVE RestoreLoopAbortOnMissing(_, _, _, _, _, _, _)
RestoreLoopAbortOnMissing(fileIds, i, fs, sc, restoredFiles, found, faults) ==
    IF i > Len(fileIds) \/ found[i] = {}
    THEN [files |-> fs, sidecars |-> sc, restoredFiles |-> restoredFiles]
    ELSE
      LET metadata == CHOOSE m \in found[i] : TRUE
          metadataPath == MetadataPathOf(metadata)
      IN  IF ~FsExists(fs, metadata.tempPath) \/ faults[i] = "rename"
          THEN RestoreLoopAbortOnMissing(fileIds, i + 1, fs, sc, restoredFiles, found, faults)
          ELSE IF ~FsExists(sc, metadataPath) \/ faults[i] = "unlink"
          THEN RestoreLoopAbortOnMissing(fileIds, i + 1,
                           FsRename(fs, metadata.tempPath, metadata.originalPath),
                           sc, restoredFiles, found, faults)
          ELSE RestoreLoopAbortOnMissing(fileIds, i + 1,
                           FsRename(fs, metadata.tempPath, metadata.originalPath),
                           FsUnlink(sc, metadataPath),
                           Append(restoredFiles, metadata), found, faults)

\* POST /api/photos/restore-from-trash, the loop over req.body.fileIds.
\* found[i] is what trashFiles.find((m) => m.id === fileId) returns: the
\* empty set or one entry.
RECURSIVE RestoreLoop(_, _, _, _, _, _, _)
RestoreLoop(fileIds, i, fs, sc, restoredFiles, found, faults) ==
    IF i > Len(fileIds)
    THEN [files |-> fs, sidecars |-> sc, restoredFiles |-> restoredFiles]
    ELSE IF found[i] = {}
    THEN RestoreLoop(fileIds, i + 1, fs, sc, restoredFiles, found, faults)
    ELSE
      LET metadata == CHOOSE m \in found[i] : TRUE
          metadataPath == MetadataPathOf(metadata)
      IN  IF ~FsExists(fs, metadata.tempPath) \/ faults[i] = "rename"
          THEN RestoreLoop(fileIds, i + 1, fs, sc, restoredFiles, found, faults)
          ELSE IF ~FsExists(sc, metadataPath) \/ faults[i] = "unlink"
          THEN RestoreLoop(fileIds, i + 1,
                           FsRename(fs, metadata.tempPath, metadata.originalPath),
                           sc, restoredFiles, found, faults)
          ELSE RestoreLoop(fileIds, i + 1,
                           FsRename(fs, metadata.tempPath, metadata.originalPath),
                           FsUnlink(sc, metadataPath),
                           Append(restoredFiles, metadata), found, faults)

\* the values trashFiles.find may return for each id: the order of readdir
\* is not specified, so any entry with the id may be the first
FindChoices(trashFiles, fileIds) ==
    { f \in [1..Len(fileIds) -> { {} } \cup { {m} : m \in trashFiles }] :
        \A i \in 1..Len(fileIds) :
            LET matches == { m \in trashFiles : m.id = fileIds[i] }
            IN IF matches = {} THEN f[i] = {} ELSE f[i] \subseteq matches /\ f[i] # {} }

EmptyFaults == {"none", "file", "metadata"}

\* the loop of empty-trash counting the entries it went through instead of
\* the files it deleted
RECURSIVE EmptyLoopCountingEntries(_, _, _, _, _)
EmptyLoopCountingEntries(todo, fs, sc, deletedCount, faults) ==
    IF todo = {}
    THEN [files |-> fs, sidecars |-> sc, deletedCount |-> deletedCount]
    ELSE
      LET metadata == CHOOSE m \in todo : TRUE
          rest == todo \ {metadata}
          metadataPath == MetadataPathOf(metadata)
      IN  IF ~FsExists(fs, metadata.tempPath) \/ faults[metadata] = "file"
          THEN EmptyLoopCountingEntries(rest, fs, sc, deletedCount + 1, faults)
          ELSE IF ~FsExists(sc, metadataPath) \/ faults[metadata] = "metadata"
          THEN EmptyLoopCountingEntries(rest, FsUnlink(fs, metadata.tempPath), sc,
                         deletedCount + 1, faults)
          ELSE EmptyLoopCountingEntries(rest, FsUnlink(fs, metadata.tempPath),
                         FsUnlink(sc, metadataPath), deletedCount + 1, faults)

\* the loop of empty-trash with a failure ending the loop: the entries after
\* an entry that cannot be deleted are left alone
RECURSIVE EmptyLoopAbortOnFailure(_, _, _, _, _)
EmptyLoopAbortOnFailure(todo, fs, sc, deletedCount, faults) ==
    IF todo = {}
    THEN [files |-> fs, sidecars |-> sc, deletedCount |-> deletedCount]
    ELSE
      LET metadata == CHOOSE m \in todo : TRUE
          rest == todo \ {metadata}
          metadataPath == MetadataPathOf(metadata)
      IN  IF ~FsExists(fs, metadata.tempPath) \/ faults[metadata] = "file"
          THEN [files |-> fs, sidecars |-> sc, deletedCount |-> deletedCount]
          ELSE IF ~FsExists(sc, metadataPath) \/ faults[metadata] = "metadata"
          THEN [files |-> FsUnlink(fs, metadata.tempPath), sidecars |-> sc,
                deletedCount |-> deletedCount + 1]
          ELSE EmptyLoopAbortOnFailure(rest, FsUnlink(fs, metadata.tempPath),
                         FsUnlink(sc, metadataPath), deletedCount + 1, faults)

\* DELETE /api/photos/empty-trash, the loop over trashFiles
RECURSIVE EmptyLoop(_, _, _, _, _)
EmptyLoop(todo, fs, sc, deletedCount, faults) ==
    IF todo = {}
    THEN [files |-> fs, sidecars |-> sc, deletedCount |-> deletedCount]
    ELSE
      LET metadata == CHOOSE m \in todo : TRUE
          rest == todo \ {metadata}
          metadataPath == MetadataPathOf(metadata)
      IN  IF ~FsExists(fs, metadata.tempPath) \/ faults[metadata] = "file"
          THEN EmptyLoop(rest, fs, sc, deletedCount, faults)
          ELSE IF ~FsExists(sc, metadataPath) \/ faults[metadata] = "metadata"
          THEN EmptyLoop(rest, FsUnlink(fs, metadata.tempPath), sc,
                         deletedCount + 1, faults)
          ELSE EmptyLoop(rest, FsUnlink(fs, metadata.tempPath),
                         FsUnlink(sc, metadataPath), deletedCount + 1, faults)

\* deletedFiles.reduce((sum, file) => sum + (file.size || 0), 0)
RECURSIVE SumSizes(_)
SumSizes(entries) ==
    IF entries = {} THEN 0
    ELSE LET m == CHOOSE x \in entries : TRUE
         IN m.size + SumSizes(entries \ {m})

\* the timestamps a request of n photos may read from Date.now()
Timestamps(n) ==
    { t \in [1..n -> now..MaxClock] : \A i \in 1..n : \A j \in i..n : t[i] <= t[j] }

\* the number of failing calls a choice of faults injects
NumFaults(faults) == Cardinality({ x \in DOMAIN faults : faults[x] # "none" })

\* a request arrives, `n` of its filesystem calls fail
Request(n) ==
    /\ requestCount < MaxRequests
    /\ faultCount + n <= MaxFaults
    /\ requestCount' = requestCount + 1
    /\ faultCount' = faultCount + n

\* res.json(...) of a trash endpoint: the handlers answer 200 whatever the
\* per-item failures were
Response(op, ids, entries, count, totalSize) ==
    [op |-> op, status |-> 200, ids |-> ids, entries |-> entries, count |-> count,
     totalSize |-> totalSize]

----------------------------------------------------------------------------
(* Frontend: DeletionService, src/frontend/src/utils/qualityAnalysis.ts.   *)
(* Each method is one request to the backend, answered by the handler of   *)
(* index.js, followed by the update of the local registry.                 *)

\* the DeletedFile the registry keeps for an entry of result.deletedFiles
\* (deletedAt, a wall-clock string, is left out)
DeletedFile(file) ==
    [id |-> file.id, originalPath |-> file.originalPath, filename |-> file.filename,
     size |-> file.size, tempPath |-> file.tempPath]

\* result.deletedFiles.forEach(file => this.deletedFiles.set(file.id, ...))
RegistrySetAll(registry, list) ==
    [id \in DOMAIN registry \cup { list[i].id : i \in DOMAIN list } |->
        IF \E i \in DOMAIN list : list[i].id = id
        THEN DeletedFile(list[CHOOSE i \in DOMAIN list :
                    list[i].id = id /\ \A j \in DOMAIN list : list[j].id = id => j <= i])
        ELSE registry[id]]

\* fileIds.forEach(id => this.deletedFiles.delete(id))
RegistryDeleteAll(registry, fileIds) ==
    [id \in DOMAIN registry \ Range(fileIds) |-> registry[id]]

\* DeletionService.moveToTrash(photoIds, photos) with POST /api/photos/move-to-trash
moveToTrash(photos, tss, faults) ==
    LET r == MoveLoop(photos, 1, files, sidecars, <<>>, currentScanDirectory, tss, faults)
    IN  /\ Request(NumFaults(faults))
        /\ files' = r.files
        /\ sidecars' = r.sidecars
        /\ now' = tss[Len(photos)]
        /\ resp' = Response("move", [i \in DOMAIN photos |-> photos[i].id],
                            Range(r.deletedFiles), Len(r.deletedFiles), 0)
        /\ dsDeletedFiles' = RegistrySetAll(dsDeletedFiles, r.deletedFiles)
        /\ UNCHANGED <<currentScanDirectory, scanVars, clusterVars, hammingVars, previewVars>>

\* DeletionService.restoreFromTrash(fileIds) with POST /api/photos/restore-from-trash
restoreFromTrash(fileIds, found, faults) ==
    LET r == RestoreLoop(fileIds, 1, files, sidecars, <<>>, found, faults)
    IN  /\ Request(NumFaults(faults))
        /\ files' = r.files
        /\ sidecars' = r.sidecars
        /\ resp' = Response("restore", fileIds, Range(r.restoredFiles),
                            Len(r.restoredFiles), 0)
        /\ dsDeletedFiles' = RegistryDeleteAll(dsDeletedFiles, fileIds)
        /\ UNCHANGED <<now, currentScanDirectory, scanVars, clusterVars, hammingVars, previewVars, galleryVars, frontVars>>

\* DeletionService.emptyTrash() with DELETE /api/photos/empty-trash
emptyTrash(faults) ==
    LET trashFiles == getAllTrashFiles(files, sidecars, currentScanDirectory)
        r == EmptyLoop(trashFiles, files, sidecars, 0, faults)
    IN  /\ Request(NumFaults(faults))
        /\ files' = r.files
        /\ sidecars' = r.sidecars
        /\ resp' = Response("empty", <<>>, {}, r.deletedCount, 0)
        /\ dsDeletedFiles' = [id \in {} |-> id]
        /\ UNCHANGED <<now, currentScanDirectory, scanVars, clusterVars, hammingVars, previewVars, galleryVars, frontVars>>

\* trash-status answered from the list kept in memory
getTrashStatusCached(last) ==
    LET deletedFiles == { dsDeletedFiles[id] : id \in DOMAIN dsDeletedFiles }
    IN  /\ resp' = Response("status", <<>>, deletedFiles, Cardinality(deletedFiles),
                            SumSizes(deletedFiles))
        /\ dsDeletedFiles' = last
        /\ Request(0)
        /\ UNCHANGED <<files, sidecars, now, currentScanDirectory,
                       scanVars, clusterVars, hammingVars, previewVars, galleryVars, frontVars>>

\* DeletionService.getTrashStatus() with GET /api/photos/trash-status;
\* `last` is, for each id, the entry that comes last in the list
getTrashStatus(last) ==
    LET deletedFiles == getAllTrashFiles(files, sidecars, currentScanDirectory)
    IN  /\ resp' = Response("status", <<>>, deletedFiles, Cardinality(deletedFiles),
                            SumSizes(deletedFiles))
        /\ dsDeletedFiles' = last
        /\ Request(0)
        /\ UNCHANGED <<files, sidecars, now, currentScanDirectory,
                       scanVars, clusterVars, hammingVars, previewVars, galleryVars, frontVars>>

\* the registries data.deletedFiles.forEach(file => set(file.id, file)) can leave
LastById(entries) ==
    { f \in [{ m.id : m \in entries } -> entries] : \A id \in DOMAIN f : f[id].id = id }

MoveToTrashAction ==
    \E photos \in Batches(Photos) :
        \E tss \in Timestamps(Len(photos)) :
            \E faults \in [1..Len(photos) -> MoveFaults] :
                moveToTrash(photos, tss, faults) /\ UNCHANGED <<galleryVars, frontVars>>

RestoreFromTrashAction ==
    \E fileIds \in Batches(PhotoIds) :
        \E found \in FindChoices(getAllTrashFiles(files, sidecars, currentScanDirectory),
                                 fileIds) :
            \E faults \in [1..Len(fileIds) -> RestoreFaults] :
                restoreFromTrash(fileIds, found, faults)

EmptyTrashAction ==
    \E faults \in [getAllTrashFiles(files, sidecars, currentScanDirectory) -> EmptyFaults] :
        emptyTrash(faults)

GetTrashStatusAction ==
    \E last \in LastById(getAllTrashFiles(files, sidecars, currentScanDirectory)) :
        getTrashStatus(last)

----------------------------------------------------------------------------
(* Backend: POST /api/scan (index.js) and DirectoryScanner (scanner.js) *)

MaxScanRequests == 2    \* the POST /api/scan requests open at once, scanner alone
MaxScanRequestsWithTrash == 1   \* the same, when trash requests are made as well
ScanSlots == DOMAIN scans

ThumbnailsDirName == "_thumbnails"
\* this.thumbnailsDir = null
NoThumbnailsDir == [root |-> Null, dir |-> Null]
ScanInProgressError == "Scan already in progress"
PathRequiredError == "Path parameter is required"
SetupError == "mkdir failed"

\* the progress object the constructor and scanDirectory assign
NewProgress == [totalFiles |-> 0, processedFiles |-> 0, currentFile |-> <<>>,
                phase |-> "scanning"]

\* a request slot: the number of the request it served last, the position of
\* the handler, the locals of scanDirectory and the answer
IdleScan == [request |-> 0, pc |-> "idle", path |-> Null, todo |-> {}, photos |-> 0,
             status |-> 0, error |-> ""]
NewScan(path) == [IdleScan EXCEPT !.request = requestCount + 1, !.path = path]

\* findImageFiles(directoryPath): the image files below the directory, the
\* hidden directories (.trash) and _thumbnails being skipped
findImageFiles(fs, directoryPath) ==
    { q \in DOMAIN fs : q.root = directoryPath /\ q.dir # TrashDirName
                        /\ q.dir # ThumbnailsDirName }

\* scanDirectory without the check of isScanning
PostScanUnguarded(r, path) ==
    /\ scans[r].pc = "idle"
    /\ Request(0)
    /\ path # ""
    /\ currentScanDirectory' = path
    /\ isScanning' = TRUE
    /\ thumbnailsDir' = NoThumbnailsDir
    /\ progress' = NewProgress
    /\ scans' = [scans EXCEPT ![r] = [NewScan(path) EXCEPT !.pc = "setup"]]
    /\ UNCHANGED <<trashVars, clusterVars, hammingVars, previewVars, galleryVars, frontVars>>

\* POST /api/scan up to the first await of scanDirectory: the handler stores
\* the scan directory, then scanDirectory throws when a scan is in flight
PostScan(r, path) ==
    /\ scans[r].pc = "idle"
    /\ Request(0)
    /\ IF path = ""
       THEN /\ scans' = [scans EXCEPT ![r] =
                            [NewScan(Null) EXCEPT !.status = 400, !.error = PathRequiredError]]
            /\ UNCHANGED <<currentScanDirectory, isScanning, progress, thumbnailsDir>>
       ELSE /\ currentScanDirectory' = path
            /\ IF isScanning
               THEN /\ scans' = [scans EXCEPT ![r] =
                                    [NewScan(path) EXCEPT !.status = 500,
                                                          !.error = ScanInProgressError]]
                    /\ UNCHANGED <<isScanning, progress, thumbnailsDir>>
               ELSE /\ isScanning' = TRUE
                    /\ thumbnailsDir' = NoThumbnailsDir
                    /\ progress' = NewProgress
                    /\ scans' = [scans EXCEPT ![r] =
                                    [NewScan(path) EXCEPT !.pc = "setup"]]
    /\ UNCHANGED <<trashVars, clusterVars, hammingVars, previewVars, galleryVars, frontVars>>

\* getThumbnailsDirectory and findImageFiles outside of try/finally: the
\* exception of mkdir leaves the method with isScanning still set
ScanSetupNoFinally(r, mkdirFails) ==
    /\ scans[r].pc = "setup"
    /\ faultCount + (IF mkdirFails THEN 1 ELSE 0) <= MaxFaults
    /\ faultCount' = faultCount + (IF mkdirFails THEN 1 ELSE 0)
    /\ thumbnailsDir' = [root |-> scans[r].path, dir |-> ThumbnailsDirName]
    /\ IF mkdirFails
       THEN /\ scans' = [scans EXCEPT ![r] =
                            [scans[r] EXCEPT !.pc = "idle", !.status = 500,
                                             !.error = SetupError]]
            /\ UNCHANGED <<progress, isScanning>>
       ELSE LET found == findImageFiles(files, scans[r].path)
            IN  /\ progress' = [progress EXCEPT !.totalFiles = Cardinality(found),
                                                !.phase = "analyzing"]
                /\ scans' = [scans EXCEPT ![r].pc = "analyzing", ![r].todo = found]
                /\ UNCHANGED isScanning
    /\ UNCHANGED <<currentScanDirectory, requestCount, trashVars, clusterVars, hammingVars, previewVars, galleryVars, frontVars>>

\* scanDirectory: getThumbnailsDirectory, then the first pass findImageFiles.
\* When the thumbnails directory cannot be made the call ends in the finally
\* block and the handler answers 500.
ScanSetup(r, mkdirFails) ==
    /\ scans[r].pc = "setup"
    /\ faultCount + (IF mkdirFails THEN 1 ELSE 0) <= MaxFaults
    /\ faultCount' = faultCount + (IF mkdirFails THEN 1 ELSE 0)
    /\ thumbnailsDir' = [root |-> scans[r].path, dir |-> ThumbnailsDirName]
    /\ IF mkdirFails
       THEN /\ isScanning' = FALSE
            /\ scans' = [scans EXCEPT ![r] =
                            [scans[r] EXCEPT !.pc = "idle", !.status = 500,
                                             !.error = SetupError]]
            /\ UNCHANGED progress
       ELSE LET found == findImageFiles(files, scans[r].path)
            IN  /\ progress' = [progress EXCEPT !.totalFiles = Cardinality(found),
                                                !.phase = "analyzing"]
                /\ scans' = [scans EXCEPT ![r].pc = "analyzing", ![r].todo = found]
                /\ UNCHANGED isScanning
    /\ UNCHANGED <<currentScanDirectory, requestCount, trashVars, clusterVars, hammingVars, previewVars, galleryVars, frontVars>>

\* one turn of the second pass that counts a file only when processFile
\* has returned a photo
ScanProcessFileCountingPhotos(r, filePath, fails) ==
    /\ scans[r].pc = "analyzing"
    /\ filePath \in scans[r].todo
    /\ faultCount + (IF fails THEN 1 ELSE 0) <= MaxFaults
    /\ faultCount' = faultCount + (IF fails THEN 1 ELSE 0)
    /\ progress' = [progress EXCEPT !.currentFile = filePath.name,
                                    !.processedFiles = IF fails THEN @ ELSE @ + 1]
    /\ scans' = [scans EXCEPT ![r].todo = @ \ {filePath},
                              ![r].photos = IF fails \/ ~FsExists(files, filePath)
                                            THEN @ ELSE @ + 1]
    /\ UNCHANGED <<isScanning, thumbnailsDir, currentScanDirectory, requestCount,
                   trashVars, clusterVars, hammingVars, previewVars, galleryVars, frontVars>>

\* one turn of the second pass: processFile(filePath), its error caught
ScanProcessFile(r, filePath, fails) ==
    /\ scans[r].pc = "analyzing"
    /\ filePath \in scans[r].todo
    /\ faultCount + (IF fails THEN 1 ELSE 0) <= MaxFaults
    /\ faultCount' = faultCount + (IF fails THEN 1 ELSE 0)
    /\ progress' = [progress EXCEPT !.currentFile = filePath.name,
                                    !.processedFiles = @ + 1]
    /\ scans' = [scans EXCEPT ![r].todo = @ \ {filePath},
                              ![r].photos = IF fails \/ ~FsExists(files, filePath)
                                            THEN @ ELSE @ + 1]
    /\ UNCHANGED <<isScanning, thumbnailsDir, currentScanDirectory, requestCount,
                   trashVars, clusterVars, hammingVars, previewVars, galleryVars, frontVars>>

\* the end of scanDirectory and the answer of the handler
ScanFinish(r) ==
    /\ scans[r].pc = "analyzing"
    /\ scans[r].todo = {}
    /\ progress' = [progress EXCEPT !.phase = "complete"]
    /\ isScanning' = FALSE
    /\ scans' = [scans EXCEPT ![r].pc = "idle", ![r].status = 200]
    /\ UNCHANGED <<thumbnailsDir, currentScanDirectory, faultCount, requestCount,
                   trashVars, clusterVars, hammingVars, previewVars, galleryVars, frontVars>>

PostScanAction == \E r \in ScanSlots : \E path \in Roots \cup {""} : PostScan(r, path)
ScanSetupAction == \E r \in ScanSlots : \E mkdirFails \in BOOLEAN : ScanSetup(r, mkdirFails)
ScanProcessFileAction ==
    \E r \in ScanSlots : \E filePath \in scans[r].todo : \E fails \in BOOLEAN :
        ScanProcessFile(r, filePath, fails)
ScanFinishAction == \E r \in ScanSlots : ScanFinish(r)

----------------------------------------------------------------------------
(* The server with its client *)

NoResponse == [Response("none", <<>>, {}, 0, 0) EXCEPT !.status = 0]

DefaultThreshold == 80  \* useState(80)

\* the App component shows photos without fingerprints, no image is being
\* fingerprinted and no file list is being paired
FrontendIdle ==
    /\ cachedHashes = <<>>
    /\ appThreshold = DefaultThreshold
    /\ flags = [id \in PhotoIds |-> 0]
    /\ timers = <<>>
    /\ luminance = <<>>
    /\ imageHash = [pending |-> TRUE]
    /\ fileList = <<>>
    /\ pairing = [pending |-> TRUE]

\* duplicate detection is not running
ClusterIdle ==
    /\ hashes = <<>>
    /\ analyzed = <<>>
    /\ threshold = 0
    /\ groups = <<>>
    /\ hash1 = <<>>
    /\ hash2 = <<>>
    /\ distance = 0
    /\ fileFormat = Null
    /\ rawData = <<>>
    /\ extractedJpeg = [pending |-> TRUE]
    /\ photoList = PhotoIds
    /\ alert = [kind |-> "none", count |-> 0]
    /\ FrontendIdle

\* the state after the construction of the server and of the DeletionService,
\* two photos being on disk and the trash directories empty
InitServer(slots) ==
    /\ files = (F1 :> "p1") @@ (F2 :> "p2")
    /\ sidecars = [q \in {} |-> q]
    /\ currentScanDirectory = Null
    /\ now = 1
    /\ dsDeletedFiles = [id \in {} |-> id]
    /\ resp = NoResponse
    /\ faultCount = 0
    /\ requestCount = 0
    /\ isScanning = FALSE
    /\ progress = NewProgress
    /\ thumbnailsDir = NoThumbnailsDir
    /\ scans = [r \in 1..slots |-> IdleScan]

Init == InitServer(MaxScanRequestsWithTrash) /\ ClusterIdle

NextScan ==
    \/ PostScanAction
    \/ ScanSetupAction
    \/ ScanProcessFileAction
    \/ ScanFinishAction

Next ==
    \/ MoveToTrashAction
    \/ RestoreFromTrashAction
    \/ EmptyTrashAction
    \/ GetTrashStatusAction
    \/ NextScan

\* the server with the trash requests of its client
Spec == Init /\ [][Next]_vars

\* the scanner alone, with overlapping scan requests
InitScan == InitServer(MaxScanRequests) /\ ClusterIdle
SpecScan == InitScan /\ [][NextScan]_vars

\* the scanner with its awaits resumed: a scanDirectory call that has
\* passed its guard runs on until it returns or throws
SpecScanFair ==
    /\ InitScan
    /\ [][NextScan]_vars
    /\ WF_scans(ScanSetupAction)
    /\ WF_scans(ScanProcessFileAction)
    /\ WF_scans(ScanFinishAction)

\* a trash directory that outlived the process that filled it: three entries
\* with file and sidecar, and the sidecar of a fourth whose file is gone
SurvivorNames == << <<"a.jpg">>, <<"b.jpg">>, <<"c.jpg">>, <<"d.jpg">> >>
SurvivorIds == <<"q1", "q2", "q3", "q4">>
SurvivorMetadata(k) ==
    [id |-> SurvivorIds[k], originalPath |-> Path("R1", "a", 0, SurvivorNames[k]),
     filename |-> SurvivorNames[k], size |-> k,
     tempPath |-> TrashPath("R1", 0, SurvivorNames[k])]

\* the state after the construction of the server over that directory
InitPurge ==
    /\ files = (F1 :> "p1") @@ (F2 :> "p2")
               @@ [q \in { TrashPath("R1", 0, SurvivorNames[k]) : k \in 1..3 } |-> "q"]
    /\ sidecars = [q \in { TrashPath("R1", 0, SurvivorNames[k]) : k \in 1..4 } |->
                     SurvivorMetadata(CHOOSE k \in 1..4 : q.name = SurvivorNames[k])]
    /\ currentScanDirectory = Null
    /\ now = 1
    /\ dsDeletedFiles = [id \in {} |-> id]
    /\ resp = NoResponse
    /\ faultCount = 0
    /\ requestCount = 0
    /\ isScanning = FALSE
    /\ progress = NewProgress
    /\ thumbnailsDir = NoThumbnailsDir
    /\ scans = [r \in 1..MaxScanRequestsWithTrash |-> IdleScan]
    /\ ClusterIdle

\* the server over that directory, with the requests of a client that scans
\* it, looks at the trash and empties it
NextPurge ==
    \/ EmptyTrashAction
    \/ GetTrashStatusAction
    \/ NextScan
SpecPurge == InitPurge /\ [][NextPurge]_vars


----------------------------------------------------------------------------
(* Frontend: fingerprints and duplicate groups,                            *)
(* src/frontend/src/utils/duplicateDetection.ts                            *)

HashBits == 64          \* hashSize * hashSize, the bits of a fingerprint
MaxDistance == 64       \* calculateSimilarity: const maxDistance = 64
Infinity == 1000000     \* the value returned for hashes of different lengths

HexDigits == <<"0", "1", "2", "3", "4", "5", "6", "7",
               "8", "9", "a", "b", "c", "d", "e", "f">>

\* parseInt(chunk, 2) for a chunk of up to four binary digits
RECURSIVE ParseBinary(_)
ParseBinary(chunk) ==
    IF chunk = <<>> THEN 0
    ELSE 2 * ParseBinary(SubSeq(chunk, 1, Len(chunk) - 1))
         + (IF chunk[Len(chunk)] = "1" THEN 1 ELSE 0)

\* binaryToHex(binary): one hex digit for each chunk of four binary digits
RECURSIVE binaryToHex(_)
binaryToHex(binary) ==
    IF binary = <<>> THEN <<>>
    ELSE LET n == IF Len(binary) < 4 THEN Len(binary) ELSE 4
             decimal == ParseBinary(SubSeq(binary, 1, n))
         IN <<HexDigits[decimal + 1]>> \o binaryToHex(SubSeq(binary, n + 1, Len(binary)))

\* parseInt(hex[i], 16)
ParseHex(c) == (CHOOSE k \in 1..16 : HexDigits[k] = c) - 1

\* decimal.toString(2) without the padStart
RECURSIVE ToBinaryUnpadded(_)
ToBinaryUnpadded(decimal) ==
    IF decimal < 2 THEN << IF decimal = 1 THEN "1" ELSE "0" >>
    ELSE ToBinaryUnpadded(decimal \div 2) \o << IF decimal % 2 = 1 THEN "1" ELSE "0" >>

\* decimal.toString(2).padStart(4, '0')
ToBinary4(decimal) ==
    << IF (decimal \div 8) % 2 = 1 THEN "1" ELSE "0",
       IF (decimal \div 4) % 2 = 1 THEN "1" ELSE "0",
       IF (decimal \div 2) % 2 = 1 THEN "1" ELSE "0",
       IF decimal % 2 = 1 THEN "1" ELSE "0" >>

\* hexToBinary(hex)
RECURSIVE hexToBinary(_)
hexToBinary(hex) ==
    IF hex = <<>> THEN <<>>
    ELSE ToBinary4(ParseHex(Head(hex))) \o hexToBinary(Tail(hex))

\* str[i]: undefined beyond the end of the string
CharAt(str, i) == IF i \in DOMAIN str THEN str[i] ELSE "undefined"

\* calculateHammingDistance(hash1, hash2)
calculateHammingDistance(h1, h2) ==
    IF Len(h1) # Len(h2) THEN Infinity
    ELSE LET binary1 == hexToBinary(h1)
             binary2 == hexToBinary(h2)
         IN Cardinality({ i \in 1..Len(binary1) : CharAt(binary1, i) # CharAt(binary2, i) })

\* calculateSimilarity(hash1, hash2) in units of 1/64 percent: the code
\* returns Math.max(0, (64 - distance) / 64 * 100), which is this value / 64
calculateSimilarity64(h1, h2) ==
    LET d == calculateHammingDistance(h1, h2)
    IN IF d = Infinity THEN 0
       ELSE IF (MaxDistance - d) * 100 > 0 THEN (MaxDistance - d) * 100 ELSE 0

\* similarity > similarityThreshold
MeetsThresholdStrict(h1, h2, similarityThreshold) ==
    calculateSimilarity64(h1, h2) > MaxDistance * similarityThreshold

\* similarity <= similarityThreshold
MeetsThresholdInverted(h1, h2, similarityThreshold) ==
    calculateSimilarity64(h1, h2) <= MaxDistance * similarityThreshold

\* similarity >= similarityThreshold
MeetsThreshold(h1, h2, similarityThreshold) ==
    calculateSimilarity64(h1, h2) >= MaxDistance * similarityThreshold

\* the inner loop with a candidate compared to every photo gathered so far
\* instead of the seed alone
RECURSIVE SimilarLoopChained(_, _, _, _, _, _)
SimilarLoopChained(imageHashes, i, j, similarPhotos, processed, similarityThreshold) ==
    IF j > Len(imageHashes) THEN [similarPhotos |-> similarPhotos, processed |-> processed]
    ELSE IF imageHashes[j].id \in processed
    THEN SimilarLoopChained(imageHashes, i, j + 1, similarPhotos, processed,
                            similarityThreshold)
    ELSE IF \E k \in i..(j - 1) :
               /\ imageHashes[k].id \in Range(similarPhotos)
               /\ MeetsThreshold(imageHashes[k].hash, imageHashes[j].hash,
                                 similarityThreshold)
    THEN SimilarLoopChained(imageHashes, i, j + 1, Append(similarPhotos, imageHashes[j].id),
                            processed \cup {imageHashes[j].id}, similarityThreshold)
    ELSE SimilarLoopChained(imageHashes, i, j + 1, similarPhotos, processed,
                            similarityThreshold)

\* the inner loop without the set of processed ids: a candidate that is in a
\* group already is compared again
RECURSIVE SimilarLoopUnmarked(_, _, _, _, _, _)
SimilarLoopUnmarked(imageHashes, i, j, similarPhotos, processed, similarityThreshold) ==
    IF j > Len(imageHashes) THEN [similarPhotos |-> similarPhotos, processed |-> processed]
    ELSE IF MeetsThreshold(imageHashes[i].hash, imageHashes[j].hash, similarityThreshold)
    THEN SimilarLoopUnmarked(imageHashes, i, j + 1, Append(similarPhotos, imageHashes[j].id),
                             processed, similarityThreshold)
    ELSE SimilarLoopUnmarked(imageHashes, i, j + 1, similarPhotos, processed,
                             similarityThreshold)

\* findDuplicateGroups, the inner loop over j = i+1 .. photoIds.length-1:
\* the ids gathered around the seed i and the set of processed ids
RECURSIVE SimilarLoop(_, _, _, _, _, _)
SimilarLoop(imageHashes, i, j, similarPhotos, processed, similarityThreshold) ==
    IF j > Len(imageHashes) THEN [similarPhotos |-> similarPhotos, processed |-> processed]
    ELSE IF imageHashes[j].id \in processed
    THEN SimilarLoop(imageHashes, i, j + 1, similarPhotos, processed, similarityThreshold)
    ELSE IF MeetsThreshold(imageHashes[i].hash, imageHashes[j].hash, similarityThreshold)
    THEN SimilarLoop(imageHashes, i, j + 1, Append(similarPhotos, imageHashes[j].id),
                     processed \cup {imageHashes[j].id}, similarityThreshold)
    ELSE SimilarLoop(imageHashes, i, j + 1, similarPhotos, processed, similarityThreshold)

\* the outer loop with a group pushed for every seed, alone or not
RECURSIVE GroupLoopLoneGroups(_, _, _, _, _)
GroupLoopLoneGroups(imageHashes, i, result, processed, similarityThreshold) ==
    IF i > Len(imageHashes) THEN result
    ELSE IF imageHashes[i].id \in processed
    THEN GroupLoopLoneGroups(imageHashes, i + 1, result, processed, similarityThreshold)
    ELSE
      LET r == SimilarLoop(imageHashes, i, i + 1, <<imageHashes[i].id>>, processed,
                           similarityThreshold)
      IN  GroupLoopLoneGroups(imageHashes, i + 1,
                              Append(result, [id |-> Len(result) + 1,
                                              photos |-> r.similarPhotos,
                                              similarity |-> similarityThreshold]),
                              r.processed \cup Range(r.similarPhotos), similarityThreshold)

\* findDuplicateGroups, the outer loop over i
RECURSIVE GroupLoop(_, _, _, _, _)
GroupLoop(imageHashes, i, result, processed, similarityThreshold) ==
    IF i > Len(imageHashes) THEN result
    ELSE IF imageHashes[i].id \in processed
    THEN GroupLoop(imageHashes, i + 1, result, processed, similarityThreshold)
    ELSE
      LET r == SimilarLoop(imageHashes, i, i + 1, <<imageHashes[i].id>>, processed,
                           similarityThreshold)
      IN  IF Len(r.similarPhotos) > 1
          THEN GroupLoop(imageHashes, i + 1,
                         Append(result, [id |-> Len(result) + 1,
                                         photos |-> r.similarPhotos,
                                         similarity |-> similarityThreshold]),
                         r.processed \cup Range(r.similarPhotos), similarityThreshold)
          ELSE GroupLoop(imageHashes, i + 1, result,
                         r.processed \cup {imageHashes[i].id}, similarityThreshold)

\* findDuplicateGroups(imageHashes, similarityThreshold); the map is the
\* sequence of its entries in insertion order, group k has the id dup_group_k
findDuplicateGroups(imageHashes, similarityThreshold) ==
    GroupLoop(imageHashes, 1, <<>>, {}, similarityThreshold)

----------------------------------------------------------------------------
(* Fingerprints used as inputs of the clustering *)

MaxPhotos == 4          \* the entries of the fingerprint map
NumFingerprints == 3    \* the fingerprints a photo can have
NumNibbles == 3         \* the nibbles a fingerprint of the distance check is made of

\* n copies of the binary digits s
RECURSIVE Repeat(_, _)
Repeat(s, n) == IF n = 0 THEN <<>> ELSE s \o Repeat(s, n - 1)

\* the 64 binary digits with ones at the positions from..to
OnesAt(from, to) == [i \in 1..HashBits |-> IF i >= from /\ i <= to THEN "1" ELSE "0"]

\* the comparison bits of some 9x8 luminance grids
BitPatterns ==
    << OnesAt(1, 0), OnesAt(1, 8), OnesAt(1, 16), OnesAt(57, 64), OnesAt(1, 64),
       OnesAt(1, 1), OnesAt(1, 32), OnesAt(9, 24) >>
Fingerprints ==
    { binaryToHex(BitPatterns[k]) :
        k \in 1..(IF NumFingerprints < Len(BitPatterns) THEN NumFingerprints
                  ELSE Len(BitPatterns)) }

\* thresholds around the similarities the fingerprints have, with the ends
\* of the range and the default of the application
Thresholds == {1, 50, 62, 63, 75, 76, 85, 87, 88, 100}

PhotoIdAt(i) == i

\* hashes.set with the number of entries taken for the index of the file
SetHashByMapSize(hash) ==
    /\ Len(analyzed) < MaxPhotos
    /\ threshold = 0
    /\ hashes' = Append(hashes, [id |-> PhotoIdAt(Len(hashes) + 1), hash |-> hash])
    /\ analyzed' = Append(analyzed, "hashed")
    /\ UNCHANGED <<threshold, groups>>

\* the turn of the loop of detectDuplicatesInAnalyzableFiles for the next
\* file, calculateImageHash giving a hash: hashes.set(photoId, hash)
SetHash(hash) ==
    /\ Len(analyzed) < MaxPhotos
    /\ threshold = 0
    /\ hashes' = Append(hashes, [id |-> PhotoIdAt(Len(analyzed) + 1), hash |-> hash])
    /\ analyzed' = Append(analyzed, "hashed")
    /\ UNCHANGED <<threshold, groups>>

\* how calculateImageHash fails: it resolves null or it throws
DecodeFailures == {"null", "threw"}

\* the turn of the loop for a file that cannot be decoded: if (hash) is
\* false or the catch block logs the error
SkipFile(failure) ==
    /\ Len(analyzed) < MaxPhotos
    /\ threshold = 0
    /\ analyzed' = Append(analyzed, failure)
    /\ UNCHANGED <<hashes, threshold, groups>>

\* the call findDuplicateGroups(hashes, similarityThreshold) after the loop
Cluster(similarityThreshold) ==
    /\ analyzed # <<>>
    /\ threshold' = similarityThreshold
    /\ groups' = findDuplicateGroups(hashes, similarityThreshold)
    /\ UNCHANGED <<hashes, analyzed>>

serverVars == <<files, sidecars, currentScanDirectory, now, dsDeletedFiles, resp,
                faultCount, requestCount, isScanning, progress, thumbnailsDir, scans>>

SetHashAction ==
    \E hash \in Fingerprints : SetHash(hash) /\ UNCHANGED <<serverVars, hammingVars, previewVars, galleryVars, frontVars>>
SkipFileAction ==
    \E failure \in DecodeFailures :
        SkipFile(failure) /\ UNCHANGED <<serverVars, hammingVars, previewVars, galleryVars, frontVars>>
ClusterAction ==
    \E t \in Thresholds : Cluster(t) /\ UNCHANGED <<serverVars, hammingVars, previewVars, galleryVars, frontVars>>

InitCluster == InitServer(MaxScanRequestsWithTrash) /\ ClusterIdle
NextCluster == SetHashAction \/ SkipFileAction \/ ClusterAction
SpecCluster == InitCluster /\ [][NextCluster]_vars

\* the fingerprints of the distance check: four blocks of sixteen bits, each
\* block one nibble four times
Nibbles == << <<"0","0","0","0">>, <<"1","1","1","1">>, <<"0","1","0","1">>,
              <<"0","0","0","1">>, <<"1","0","0","0">> >>
NibbleChoice == 1..(IF NumNibbles < Len(Nibbles) THEN NumNibbles ELSE Len(Nibbles))
BlockFingerprints ==
    { binaryToHex(Repeat(Nibbles[b[1]], 4) \o Repeat(Nibbles[b[2]], 4)
                  \o Repeat(Nibbles[b[3]], 4) \o Repeat(Nibbles[b[4]], 4)) :
        b \in [1..4 -> NibbleChoice] }

\* a call calculateHammingDistance(hash1, hash2)
Compare ==
    /\ distance = -1
    /\ distance' = calculateHammingDistance(hash1, hash2)
    /\ UNCHANGED <<hash1, hash2, clusterVars, serverVars, previewVars, galleryVars, frontVars>>

InitHamming ==
    /\ InitServer(MaxScanRequestsWithTrash)
    /\ hashes = <<>>
    /\ analyzed = <<>>
    /\ threshold = 0
    /\ groups = <<>>
    /\ hash1 \in BlockFingerprints
    /\ hash2 \in BlockFingerprints
    /\ distance = -1
    /\ fileFormat = Null
    /\ rawData = <<>>
    /\ extractedJpeg = [pending |-> TRUE]
    /\ photoList = PhotoIds
    /\ alert = [kind |-> "none", count |-> 0]
    /\ FrontendIdle
NextHamming == Compare
SpecHamming == InitHamming /\ [][NextHamming]_vars

----------------------------------------------------------------------------
(* Frontend: PhotoGallery.handleDeleteSelected with App.handlePhotosDeleted *)

NoAlert == [kind |-> "none", count |-> 0]

\* alert(`Successfully moved ${deletedCount} photo(s) to trash.`)
SuccessAlert(deletedCount) == [kind |-> "success", count |-> deletedCount]

\* alert('Failed to delete some photos. Please try again.')
FailureAlert == [kind |-> "failure", count |-> 0]

\* setPhotos(prevPhotos => prevPhotos.filter(photo => !deletedPhotoIds.includes(photo.id)))
\* setCachedHashes(prevHashes => ...): the entries of the deleted ids go.
\* The photo keeps its analysis, the flags of the others are left as they are.
IsKept(deletedPhotoIds, entry) == entry.id \notin Range(deletedPhotoIds)
handlePhotosDeleted(deletedPhotoIds) ==
    /\ photoList' = photoList \ Range(deletedPhotoIds)
    /\ flags' = [id \in DOMAIN flags \ Range(deletedPhotoIds) |-> flags[id]]
    /\ cachedHashes' = SelectSeq(cachedHashes, LAMBDA entry : IsKept(deletedPhotoIds, entry))

\* handleDeleteSelected when the request is answered: moveToTrash returns
\* true, the selection leaves the photo list and the success message is shown.
\* isDeleting is false again when the handler has ended.
handleDeleteSelected(photos, tss, faults) ==
    LET selectedPhotoIds == [i \in DOMAIN photos |-> photos[i].id]
    IN  /\ Range(selectedPhotoIds) \subseteq photoList
        /\ moveToTrash(photos, tss, faults)
        /\ handlePhotosDeleted(selectedPhotoIds)
        /\ alert' = SuccessAlert(Len(selectedPhotoIds))
        /\ UNCHANGED <<appThreshold, timers, fingerprintVars, pairingVars>>

\* handleDeleteSelected when fetch fails: moveToTrash returns false
handleDeleteSelectedOffline(photos) ==
    /\ Range([i \in DOMAIN photos |-> photos[i].id]) \subseteq photoList
    /\ alert' = FailureAlert
    /\ UNCHANGED <<serverVars, clusterVars, hammingVars, previewVars, photoList, frontVars>>

HandleDeleteSelectedAction ==
    \E photos \in Batches(Photos) :
        \E tss \in Timestamps(Len(photos)) :
            \E faults \in [1..Len(photos) -> MoveFaults] :
                handleDeleteSelected(photos, tss, faults)

HandleDeleteSelectedOfflineAction ==
    \E photos \in Batches(Photos) : handleDeleteSelectedOffline(photos)

\* the gallery with the server behind it
NextGallery ==
    \/ HandleDeleteSelectedAction
    \/ HandleDeleteSelectedOfflineAction
    \/ NextScan
SpecGallery == Init /\ [][NextGallery]_vars

----------------------------------------------------------------------------
(* Frontend: the App component, re-analysis on a change of the threshold *)

MaxTimers == 1          \* the re-analysis callbacks pending at once

\* positions of the slider around the similarities the fingerprints have
AppThresholds == {75, DefaultThreshold, 88}

NoHash == <<>>   \* the file could not be analysed

\* the photos of a project in the order of the scan
ScannedIds == <<"p1", "p2", "p3">>

\* the group id findDuplicateGroups gave the photo, 0 when it is in no group:
\* groups.find(g => g.photos.includes(photo.id))
GroupOf(gs, id) ==
    IF \E k \in DOMAIN gs : id \in Range(gs[k].photos)
    THEN gs[CHOOSE k \in DOMAIN gs :
                /\ id \in Range(gs[k].photos)
                /\ \A n \in DOMAIN gs : id \in Range(gs[n].photos) => k <= n].id
    ELSE 0

\* the flags DirectorySelector and the re-analysis give the photos
FlagsFor(photos, cache, similarityThreshold) ==
    [id \in photos |-> GroupOf(findDuplicateGroups(cache, similarityThreshold), id)]

\* the hashes map after a scan in which the photos got these fingerprints
HashesOf(assigned) ==
    LET Entry(i) == [id |-> ScannedIds[i], hash |-> assigned[i]]
        RECURSIVE Build(_)
        Build(i) == IF i > Len(ScannedIds) THEN <<>>
                    ELSE IF assigned[i] = NoHash THEN Build(i + 1)
                    ELSE <<Entry(i)>> \o Build(i + 1)
    IN  Build(1)

\* the callback of the effect: the render it closes over
Closure == [photos |-> photoList, cachedHashes |-> cachedHashes,
            similarityThreshold |-> appThreshold]

\* the callback of setTimeout: the flags are reset, the groups computed from
\* the cachedHashes and the threshold of its render, setPhotos(updatedPhotos)
Reanalyze(job) ==
    /\ photoList' = job.photos
    /\ flags' = FlagsFor(job.photos, job.cachedHashes, job.similarityThreshold)
    /\ UNCHANGED <<cachedHashes, appThreshold>>

\* setSimilarityThreshold(t) by the slider, followed by the effect of the
\* next render: no scan is running
SetSimilarityThreshold(t) ==
    /\ t # appThreshold
    /\ Len(timers) < MaxTimers
    /\ appThreshold' = t
    /\ timers' = IF photoList # {} /\ Len(cachedHashes) > 0
                 THEN Append(timers, [Closure EXCEPT !.similarityThreshold = t])
                 ELSE timers
    /\ UNCHANGED <<photoList, flags, cachedHashes>>

\* the oldest timer fires
TimerFires ==
    /\ timers # <<>>
    /\ Reanalyze(Head(timers))
    /\ timers' = Tail(timers)

\* onPhotosDeleted(deletedPhotoIds) of PhotoGallery or DuplicateModal
PhotosDeleted(deletedPhotoIds) ==
    /\ Range(deletedPhotoIds) \subseteq photoList
    /\ handlePhotosDeleted(deletedPhotoIds)
    /\ UNCHANGED <<appThreshold, timers>>

appFrame == <<serverVars, clusterVars, hammingVars, previewVars, alert,
              fingerprintVars, pairingVars>>

SetSimilarityThresholdAction ==
    \E t \in AppThresholds : SetSimilarityThreshold(t) /\ UNCHANGED appFrame
TimerFiresAction == TimerFires /\ UNCHANGED appFrame
PhotosDeletedAction ==
    \E deletedPhotoIds \in Batches(Range(ScannedIds)) :
        PhotosDeleted(deletedPhotoIds) /\ UNCHANGED appFrame

\* the state after handleScanComplete: the photos of the scan with the
\* flags of DirectorySelector, the hashes of the files that could be analysed
InitApp ==
    /\ InitServer(MaxScanRequestsWithTrash)
    /\ hashes = <<>>
    /\ analyzed = <<>>
    /\ threshold = 0
    /\ groups = <<>>
    /\ hash1 = <<>>
    /\ hash2 = <<>>
    /\ distance = 0
    /\ fileFormat = Null
    /\ rawData = <<>>
    /\ extractedJpeg = [pending |-> TRUE]
    /\ alert = [kind |-> "none", count |-> 0]
    /\ luminance = <<>>
    /\ imageHash = [pending |-> TRUE]
    /\ fileList = <<>>
    /\ pairing = [pending |-> TRUE]
    /\ photoList = Range(ScannedIds)
    /\ appThreshold = DefaultThreshold
    /\ timers = <<>>
    /\ \E assigned \in [DOMAIN ScannedIds -> Fingerprints \cup {NoHash}] :
          /\ cachedHashes = HashesOf(assigned)
          /\ flags = FlagsFor(Range(ScannedIds), HashesOf(assigned), DefaultThreshold)

NextApp ==
    \/ SetSimilarityThresholdAction
    \/ TimerFiresAction
    \/ PhotosDeletedAction
SpecApp == InitApp /\ [][NextApp]_vars

----------------------------------------------------------------------------
(* The fingerprint of duplicateDetection.ts: calculateImageHash *)

MaxGray == 2            \* the brightest gray level of the grids

HashSize == 8           \* const hashSize = 8

NoFingerprint == [pending |-> TRUE]

\* everything but the frontend utilities at rest
UtilitiesIdle ==
    /\ InitServer(MaxScanRequestsWithTrash)
    /\ hashes = <<>>
    /\ analyzed = <<>>
    /\ threshold = 0
    /\ groups = <<>>
    /\ hash1 = <<>>
    /\ hash2 = <<>>
    /\ distance = 0
    /\ fileFormat = Null
    /\ rawData = <<>>
    /\ extractedJpeg = [pending |-> TRUE]
    /\ photoList = PhotoIds
    /\ alert = [kind |-> "none", count |-> 0]
    /\ cachedHashes = <<>>
    /\ appThreshold = DefaultThreshold
    /\ flags = [id \in PhotoIds |-> 0]
    /\ timers = <<>>

\* grayPixels[pixelIndex] of the 0-based array
GrayAt(grayPixels, pixelIndex) == grayPixels[pixelIndex + 1]

\* the comparison of a pixel with the pixel to its right, not strict
RightIsNotDarker(grayPixels, pixelIndex) ==
    GrayAt(grayPixels, pixelIndex) <= GrayAt(grayPixels, pixelIndex + 1)

\* grayPixels[pixelIndex] < grayPixels[rightPixelIndex]
RightIsBrighter(grayPixels, pixelIndex) ==
    GrayAt(grayPixels, pixelIndex) < GrayAt(grayPixels, pixelIndex + 1)

\* the two loops over row and col, from the bit k = row * hashSize + col on
RECURSIVE DHashLoop(_, _)
DHashLoop(grayPixels, k) ==
    IF k >= HashSize * HashSize THEN <<>>
    ELSE LET row == k \div HashSize
             col == k % HashSize
             pixelIndex == row * (HashSize + 1) + col
         IN  << IF RightIsBrighter(grayPixels, pixelIndex) THEN "1" ELSE "0" >>
             \o DHashLoop(grayPixels, k + 1)

\* calculateImageHash from the grayscale pixels of the 9x8 canvas on
calculateImageHash(grayPixels) == [hash |-> binaryToHex(DHashLoop(grayPixels, 0))]

\* some rows of nine pixels: flat ones, ramps that wrap around, plateaus
FlatRow(v) == [c \in 1..(HashSize + 1) |-> v]
RampRow(v) == [c \in 1..(HashSize + 1) |-> (c + v) % (MaxGray + 1)]
FallRow(v) == [c \in 1..(HashSize + 1) |-> (3 * (HashSize + 1) - c + v) % (MaxGray + 1)]
PlateauRow(v) ==
    [c \in 1..(HashSize + 1) |-> IF c <= 3 THEN v ELSE IF c <= 6 THEN MaxGray ELSE 0]
Rows == UNION { {FlatRow(v), RampRow(v), FallRow(v), PlateauRow(v)} : v \in 0..MaxGray }

\* the grids: a first row, a second row and six equal rows
Grid(first, second, others) ==
    first \o second \o others \o others \o others \o others \o others \o others
Grids == { Grid(a, b, c) : a \in Rows, b \in Rows, c \in Rows }

CalculateImageHash ==
    /\ imageHash = NoFingerprint
    /\ imageHash' = calculateImageHash(luminance)
    /\ UNCHANGED luminance

CalculateImageHashAction ==
    CalculateImageHash
    /\ UNCHANGED <<serverVars, clusterVars, hammingVars, previewVars, galleryVars,
                   appVars, pairingVars>>

\* an image has been drawn on the canvas and converted to gray
InitFingerprint ==
    /\ UtilitiesIdle
    /\ luminance \in Grids
    /\ imageHash = NoFingerprint
    /\ fileList = <<>>
    /\ pairing = [pending |-> TRUE]

NextFingerprint == CalculateImageHashAction
SpecFingerprint == InitFingerprint /\ [][NextFingerprint]_vars

----------------------------------------------------------------------------
(* RAW and JPEG pairing: groupRawJpegPairs of rawJpegPairing.ts *)

MaxFiles == 3           \* the files of the FileList

NoPairing == [pending |-> TRUE]

\* a file of the list: its name is baseName.ext
File(baseName, ext) == [baseName |-> baseName, ext |-> ext]
NoFile == File("", "")

BaseNames == {"a", "b"}
RawExts == {"cr2", "nef"}
JpegExts == {"jpg", "jpeg"}
OtherImageExts == {"png"}
OtherExts == {"txt"}
Files == { File(b, x) : b \in BaseNames,
                        x \in RawExts \cup JpegExts \cup OtherImageExts \cup OtherExts }

\* file.type.startsWith('image/') or the extension is one of the image list
IsImage(file) == file.ext \in RawExts \cup JpegExts \cup OtherImageExts
\* /\.(cr2|nef|arw|dng|raf|orf|rw2|pef)$/i.test(file.name)
IsRaw(file) == file.ext \in RawExts
\* /\.(jpg|jpeg)$/i.test(file.name)
IsJpeg(file) == file.ext \in JpegExts

\* getBaseName(filename): the name up to its last dot
getBaseName(file) == file.baseName

\* the value fileMap.set(baseName, {baseId, baseName}) stores; an index is
\* undefined, here -1, as long as its file is
NewPair(baseName) ==
    [baseName |-> baseName, jpegFile |-> NoFile, rawFile |-> NoFile,
     jpegIndex |-> -1, rawIndex |-> -1]

\* fileMap, a Map in insertion order, as the sequence of its values
MapHas(fileMap, baseName) == \E k \in DOMAIN fileMap : fileMap[k].baseName = baseName
MapIndex(fileMap, baseName) == CHOOSE k \in DOMAIN fileMap : fileMap[k].baseName = baseName
IsOtherPair(baseName, pair) == pair.baseName # baseName
MapDelete(fileMap, baseName) ==
    SelectSeq(fileMap, LAMBDA pair : IsOtherPair(baseName, pair))

\* the first loop of groupRawJpegPairs from the file i (counted from 0) on
RECURSIVE PairLoop(_, _, _, _)
PairLoop(list, i, fileMap, singleFiles) ==
    IF i >= Len(list) THEN [fileMap |-> fileMap, singleFiles |-> singleFiles]
    ELSE
      LET file == list[i + 1]
          baseName == getBaseName(file)
          withPair == IF MapHas(fileMap, baseName) THEN fileMap
                      ELSE Append(fileMap, NewPair(baseName))
          k == MapIndex(withPair, baseName)
      IN  IF ~IsImage(file) THEN PairLoop(list, i + 1, fileMap, singleFiles)
          ELSE IF IsRaw(file)
          THEN PairLoop(list, i + 1,
                        [withPair EXCEPT ![k].rawFile = file, ![k].rawIndex = i],
                        singleFiles)
          ELSE IF IsJpeg(file)
          THEN PairLoop(list, i + 1,
                        [withPair EXCEPT ![k].jpegFile = file, ![k].jpegIndex = i],
                        singleFiles)
          ELSE PairLoop(list, i + 1, MapDelete(withPair, baseName),
                        Append(singleFiles, [file |-> file, index |-> i]))

\* the second loop: pairs with both files, single files with one
RECURSIVE SeparateLoop(_, _, _, _)
SeparateLoop(fileMap, k, pairs, singleFiles) ==
    IF k > Len(fileMap) THEN [pairs |-> pairs, singleFiles |-> singleFiles]
    ELSE LET pair == fileMap[k]
         IN  IF pair.jpegFile # NoFile /\ pair.rawFile # NoFile
             THEN SeparateLoop(fileMap, k + 1, Append(pairs, pair), singleFiles)
             ELSE IF pair.jpegFile # NoFile \/ pair.rawFile # NoFile
             THEN SeparateLoop(fileMap, k + 1, pairs,
                    Append(singleFiles,
                           [file |-> IF pair.jpegFile # NoFile THEN pair.jpegFile
                                     ELSE pair.rawFile,
                            index |-> IF pair.jpegIndex # -1 THEN pair.jpegIndex
                                      ELSE pair.rawIndex]))
             ELSE SeparateLoop(fileMap, k + 1, pairs, singleFiles)

groupRawJpegPairs(list) ==
    LET first == PairLoop(list, 0, <<>>, <<>>)
    IN  SeparateLoop(first.fileMap, 1, <<>>, first.singleFiles)

\* the lists of distinct files a directory input can give
RECURSIVE FileLists(_)
FileLists(n) ==
    IF n = 0 THEN {<<>>}
    ELSE LET shorter == FileLists(n - 1)
         IN  shorter \cup { Append(l, f) : l \in { x \in shorter : Len(x) = n - 1 },
                                           f \in Files }

IsDuplicateFree(list) == \A i, j \in DOMAIN list : i # j => list[i] # list[j]

GroupRawJpegPairs ==
    /\ pairing = NoPairing
    /\ pairing' = groupRawJpegPairs(fileList)
    /\ UNCHANGED fileList

GroupRawJpegPairsAction ==
    GroupRawJpegPairs
    /\ UNCHANGED <<serverVars, clusterVars, hammingVars, previewVars, galleryVars,
                   appVars, fingerprintVars>>

\* a directory has been chosen
InitPairing ==
    /\ UtilitiesIdle
    /\ luminance = <<>>
    /\ imageHash = NoFingerprint
    /\ fileList \in { l \in FileLists(MaxFiles) : IsDuplicateFree(l) }
    /\ pairing = NoPairing

NextPairing == GroupRawJpegPairsAction
SpecPairing == InitPairing /\ [][NextPairing]_vars

----------------------------------------------------------------------------
(* The preview scanner of rawThumbnailExtractor.ts *)

MaxChunks == 2          \* the pieces a RAW file of the model is made of

MinPreviewSize == 1024  \* if (jpegData.length > 1024)

StartMarker == <<255, 216>>     \* [0xFF, 0xD8]
EndMarker == <<255, 217>>       \* [0xFF, 0xD9]

NotFound == [found |-> FALSE, bytes |-> <<>>]       \* null
Found(bytes) == [found |-> TRUE, bytes |-> bytes]

\* data[i] of a Uint8Array, undefined outside it
ByteAt(data, i) == IF i >= 0 /\ i < Len(data) THEN data[i + 1] ELSE -1

\* data.slice(from, to)
Slice(data, from, to) == SubSeq(data, from + 1, IF to < Len(data) THEN to ELSE Len(data))

Min(S) == CHOOSE x \in S : \A y \in S : x <= y

\* the inner loop of findJpegMarker: marker found at offset i
MarkerAt(data, marker, i) ==
    \A j \in DOMAIN marker : data[i + j] = marker[j]

\* findJpegMarker(data, marker, startOffset): the first offset from
\* startOffset on where the marker is, or -1
findJpegMarker(data, marker, startOffset) ==
    LET hits == { i \in startOffset..(Len(data) - Len(marker)) : MarkerAt(data, marker, i) }
    IN  IF hits = {} THEN -1 ELSE Min(hits)

\* the while loop of findBestJpegPreview
RECURSIVE PreviewLoop(_, _, _)
PreviewLoop(data, searchStart, jpegPreviews) ==
    IF ~(searchStart < Len(data)) THEN jpegPreviews
    ELSE LET jpegStart == findJpegMarker(data, StartMarker, searchStart)
         IN  IF jpegStart < 0 THEN jpegPreviews
             ELSE LET jpegEnd == findJpegMarker(data, EndMarker, jpegStart + 2)
                      jpegData == Slice(data, jpegStart, jpegEnd + 2)
                      kept == IF jpegEnd >= 0 /\ jpegEnd > jpegStart
                                  /\ Len(jpegData) > MinPreviewSize
                              THEN Append(jpegPreviews, jpegData)
                              ELSE jpegPreviews
                  IN  PreviewLoop(data, jpegStart + 2, kept)

\* the callback a reduce that keeps the smallest would have
SmallestFirst(largest, current) ==
    IF Len(current) < Len(largest) THEN current ELSE largest

\* the callback of reduce, which keeps the first of the longest
LargestFirst(largest, current) ==
    IF Len(current) > Len(largest) THEN current ELSE largest

\* jpegPreviews.reduce(...) without an initial value
RECURSIVE Reduce(_, _, _)
Reduce(jpegPreviews, i, largest) ==
    IF i > Len(jpegPreviews) THEN largest
    ELSE Reduce(jpegPreviews, i + 1, LargestFirst(largest, jpegPreviews[i]))

findBestJpegPreview(data) ==
    LET jpegPreviews == PreviewLoop(data, 0, <<>>)
    IN  IF Len(jpegPreviews) = 0 THEN NotFound
        ELSE Found(Reduce(jpegPreviews, 2, jpegPreviews[1]))

\* the DNG extractor without its check of the TIFF header
extractDngThumbnailUnchecked(data) == findBestJpegPreview(data)

extractDngThumbnail(data) ==
    IF Len(data) < 8 THEN NotFound
    ELSE LET isLittleEndian == ByteAt(data, 0) = 73 /\ ByteAt(data, 1) = 73
             isBigEndian == ByteAt(data, 0) = 77 /\ ByteAt(data, 1) = 77
         IN  IF ~isLittleEndian /\ ~isBigEndian THEN NotFound
             ELSE findBestJpegPreview(data)

extractCanonThumbnail(data) == findBestJpegPreview(data)
extractNikonThumbnail(data) == findBestJpegPreview(data)
extractSonyThumbnail(data) == findBestJpegPreview(data)
extractGenericJpegThumbnail(data) == findBestJpegPreview(data)

\* the formats getRawFileInfo knows
RawFormats == {"CR2", "CR3", "NEF", "ARW", "DNG", "RAF", "ORF", "RW2", "PEF", "SRW", "X3F"}

\* the dispatch of extractEmbeddedJpeg
ExtractByFormat(format, data) ==
    IF format = "DNG" THEN extractDngThumbnail(data)
    ELSE IF format = "CR2" \/ format = "CR3" THEN extractCanonThumbnail(data)
    ELSE IF format = "NEF" THEN extractNikonThumbnail(data)
    ELSE IF format = "ARW" THEN extractSonyThumbnail(data)
    ELSE extractGenericJpegThumbnail(data)

Zeros(n) == [i \in 1..n |-> 0]

\* a marker-delimited span of n bytes, markers included
Span(n) == StartMarker \o Zeros(n - 4) \o EndMarker

\* the pieces the RAW files of the model are made of: the TIFF headers of
\* both byte orders, lone markers, half a marker, and spans of 1 KiB, one
\* byte more, 4 KiB and 40 KiB
Chunks ==
    << <<73, 73, 42, 0, 8, 0, 0, 0>>, <<77, 77, 0, 42, 0, 0, 0, 8>>,
       StartMarker, EndMarker, <<255>>,
       Span(MinPreviewSize), Span(MinPreviewSize + 1), Span(4096), Span(40960) >>

RECURSIVE Flatten(_)
Flatten(layout) ==
    IF layout = <<>> THEN <<>> ELSE Chunks[Head(layout)] \o Flatten(Tail(layout))

Layouts == SeqsUpTo(DOMAIN Chunks, MaxChunks)

\* the formats of the files of the model: the five the dispatch names and
\* one of the others
FileFormats == {"DNG", "CR2", "CR3", "NEF", "ARW", "RAF"}

\* no extraction has been made yet
NoExtraction == [pending |-> TRUE]

\* extractEmbeddedJpeg(file) up to the choice of the extracted bytes
ExtractEmbeddedJpeg ==
    /\ extractedJpeg = NoExtraction
    /\ extractedJpeg' = ExtractByFormat(fileFormat, rawData)
    /\ UNCHANGED <<fileFormat, rawData>>

ExtractEmbeddedJpegAction ==
    ExtractEmbeddedJpeg /\ UNCHANGED <<serverVars, clusterVars, hammingVars, galleryVars, frontVars>>

\* a RAW file has been chosen and is about to be read
InitPreview ==
    /\ InitServer(MaxScanRequestsWithTrash)
    /\ hashes = <<>>
    /\ analyzed = <<>>
    /\ threshold = 0
    /\ groups = <<>>
    /\ hash1 = <<>>
    /\ hash2 = <<>>
    /\ distance = 0
    /\ fileFormat \in FileFormats
    /\ rawData \in { Flatten(layout) : layout \in Layouts }
    /\ extractedJpeg = NoExtraction
    /\ photoList = PhotoIds
    /\ alert = [kind |-> "none", count |-> 0]
    /\ FrontendIdle
NextPreview == ExtractEmbeddedJpegAction
SpecPreview == InitPreview /\ [][NextPreview]_vars

----------------------------------------------------------------------------
(* Properties of the trash ledger *)

\* the step is a request to a trash endpoint, answered with `op`
TrashStep(op) == requestCount' = requestCount + 1 /\ scans' = scans /\ resp'.op = op

\* no filesystem call fails in the step
NoFaultInStep == faultCount' = faultCount

\* the names in the trash directory of a root: the files and the sidecars
TrashFileNames(fs, root) == { q \in DOMAIN fs : q.root = root /\ q.dir = TrashDirName }

\* C1: from any state, for any photo record p whose file is at its original
\* path, moveToTrash([p]) followed by restoreFromTrash([p.id]), both without
\* a failing filesystem call, gives back the files and the sidecars of the
\* state before the move.
C1_RoundTripIdentity ==
    \A p \in Photos :
        (p.path # NoPath /\ FsExists(files, p.path)) =>
        \A ts \in now..MaxClock :
            LET m == MoveLoop(<<p>>, 1, files, sidecars, <<>>, currentScanDirectory,
                              <<ts>>, <<"none">>)
                trashFiles == getAllTrashFiles(m.files, m.sidecars, currentScanDirectory)
            IN  \A found \in FindChoices(trashFiles, <<p.id>>) :
                    LET r == RestoreLoop(<<p.id>>, 1, m.files, m.sidecars, <<>>, found,
                                         <<"none">>)
                    IN  (found[1] = {} \/ Len(r.restoredFiles) = 1) =>
                            (r.files = files /\ r.sidecars = sidecars)

\* C2: in every state every file of a trash directory has its sidecar and
\* every sidecar has its file.
C2_TrashPairs ==
    \A root \in Roots : TrashFileNames(files, root) = TrashFileNames(sidecars, root)

\* the ids of a batch whose source file exists
ExistingIn(fs, ids) == { id \in Range(ids) : FsExists(fs, PhotoOf(id).path) }

\* the batch of the step has two records, exactly one with an existing source
OneExistingOneMissing ==
    /\ TrashStep("move")
    /\ Len(resp'.ids) = 2
    /\ Cardinality(ExistingIn(files, resp'.ids)) = 1

\* the answer lists exactly the existing record
ListsTheExistingRecord ==
    /\ resp'.status = 200
    /\ resp'.count = 1
    /\ { m.id : m \in resp'.entries } = ExistingIn(files, resp'.ids)
    /\ \A m \in resp'.entries : FsExists(files', m.tempPath)

SidecarsIn(sc, root) == { sc[q] : q \in TrashFileNames(sc, root) }

RECURSIVE SizeOfSidecars(_, _)
SizeOfSidecars(sc, paths) ==
    IF paths = {} THEN 0
    ELSE LET q == CHOOSE x \in paths : TRUE
         IN sc[q].size + SizeOfSidecars(sc, paths \ {q})

C7_RegistryFollowsSidecars ==
    [][(TrashStep("move") \/ TrashStep("restore") \/ TrashStep("empty")) =>
        { <<dsDeletedFiles'[id].id, dsDeletedFiles'[id].tempPath>> :
              id \in DOMAIN dsDeletedFiles' }
        = { <<m.id, m.tempPath>> : m \in SidecarsIn(sidecars', currentScanDirectory') }]_vars

----------------------------------------------------------------------------
(* Properties of the scanner *)

\* the scan of slot r is between its start and its finish
ScanInFlight(sc, r) == sc[r].pc \in {"setup", "analyzing"}

\* the step is a POST /api/scan with a path, made while a scan is in flight
SecondScanStep(r) ==
    /\ isScanning
    /\ requestCount' = requestCount + 1
    /\ scans'[r].request = requestCount + 1
    /\ scans'[r].error # PathRequiredError

\* C4: a scanDirectory call made while a scan is in flight fails at once with
\* 'Scan already in progress', is not queued and leaves the other requests
\* alone; at most one scan is between its start and its finish.
C4_ExclusiveScan ==
    [][/\ Cardinality({ r \in DOMAIN scans' : ScanInFlight(scans', r) }) <= 1
       /\ isScanning' = (\E r \in DOMAIN scans' : ScanInFlight(scans', r))
       /\ \A r \in ScanSlots :
            SecondScanStep(r) =>
                /\ scans'[r].pc = "idle"
                /\ scans'[r].status = 500
                /\ scans'[r].error = ScanInProgressError
                /\ scans'[r].todo = {}
                /\ \A q \in ScanSlots \ {r} : scans'[q] = scans[q]]_vars

\* a scan in flight and a second request that was turned down
C4_Witness ==
    \E r, q \in ScanSlots :
        /\ ScanInFlight(scans, r)
        /\ scans[r].request < scans[q].request
        /\ scans[q].error = ScanInProgressError

\* C5: a scan request that is turned down leaves the scan in flight, its
\* progress and the scan directory of the trash and thumbnail operations as
\* they were.
C5_RejectedScanChangesNothing ==
    [][\A r \in ScanSlots :
          (SecondScanStep(r) /\ scans'[r].error = ScanInProgressError) =>
              /\ UNCHANGED <<progress, isScanning, thumbnailsDir, currentScanDirectory>>
              /\ \A q \in ScanSlots \ {r} : scans'[q] = scans[q]]_vars

----------------------------------------------------------------------------
(* Properties of the fingerprints and of the duplicate groups *)

\* the step clusters the map again: the groups of the state before are
\* those of the same map at the threshold before
ReclusterStep ==
    /\ hashes' = hashes
    /\ threshold > 0

\* C8 as stated: for a fixed fingerprint map, raising the threshold never
\* increases the number of groups.
C8_GroupCountAsStated ==
    [][(ReclusterStep /\ threshold <= threshold') => Len(groups') <= Len(groups)]_vars

\* C8 as amended: for a fixed fingerprint map, raising the threshold never
\* makes a group appear where findDuplicateGroups returned none.
C8_NoGroupAppears ==
    [][(ReclusterStep /\ threshold <= threshold' /\ Len(groups) = 0)
            => Len(groups') = 0]_vars

\* a map of several fingerprints, two of them different, without a group at
\* the highest threshold
C8_Witness ==
    /\ Len(hashes) >= 3
    /\ threshold = 100
    /\ groups = <<>>
    /\ groups = findDuplicateGroups(hashes, threshold)
    /\ \E i, j \in DOMAIN hashes :
          calculateSimilarity64(hashes[i].hash, hashes[j].hash) >= MaxDistance * 87

\* the ids that are in a group together with id
GroupMates(gs, id) ==
    UNION { Range(gs[k].photos) : k \in { n \in DOMAIN gs : id \in Range(gs[n].photos) } }

\* C9: two photos with equal fingerprints have Hamming distance 0 and
\* similarity 100 and are put in the same group at every threshold, whatever
\* the other fingerprints of the map and their order.
C9_EqualFingerprintsGrouped ==
    [][(hashes' = hashes /\ threshold' >= 1 /\ threshold' <= 100) =>
        \A i, j \in DOMAIN hashes :
            (i < j /\ hashes[i].hash = hashes[j].hash) =>
                /\ calculateHammingDistance(hashes[i].hash, hashes[j].hash) = 0
                /\ calculateSimilarity64(hashes[i].hash, hashes[j].hash) = 100 * MaxDistance
                /\ hashes[j].id \in GroupMates(groups', hashes[i].id)]_vars

\* two equal fingerprints that are not next to each other, grouped at the
\* threshold 100 in a map that holds other fingerprints before and between
C9_Witness ==
    /\ threshold = 100
    /\ groups = findDuplicateGroups(hashes, threshold)
    /\ \E i, j \in DOMAIN hashes :
          /\ 1 < i /\ i + 1 < j
          /\ hashes[i].hash = hashes[j].hash
          /\ hashes[1].hash # hashes[i].hash
          /\ hashes[i + 1].hash # hashes[i].hash
          /\ hashes[j].id \in GroupMates(groups, hashes[i].id)

\* C10: for two fingerprints of 16 hex characters the Hamming distance is
\* between 0 and 64, is the same in both directions, and is 0 exactly when
\* the fingerprints are equal.
C10_HammingDistance ==
    (distance # -1 /\ Len(hash1) = 16 /\ Len(hash2) = 16) =>
        /\ distance >= 0
        /\ distance <= 64
        /\ distance = calculateHammingDistance(hash2, hash1)
        /\ (distance = 0) <=> (hash1 = hash2)

\* two fingerprints that differ in every bit
C10_Witness ==
    /\ distance = 64
    /\ Len(hash1) = 16
    /\ hash1 # hash2

----------------------------------------------------------------------------
(* The preview scanner: claims C11, C12 *)

\* the offsets of a marker in the data
MarkerOffsets(data, marker) ==
    { i \in 0..(Len(data) - Len(marker)) : MarkerAt(data, marker, i) }

\* the spans <<start, end>> a start marker makes with the nearest end marker
\* after it, when they are longer than the minimum size; end is the offset
\* after the end marker
PreviewCandidates(data) ==
    LET starts == MarkerOffsets(data, StartMarker)
        ends == MarkerOffsets(data, EndMarker)
        EndsAfter(s) == { e \in ends : e >= s + 2 }
    IN  { <<s, Min(EndsAfter(s)) + 2>> :
            s \in { t \in starts : /\ EndsAfter(t) # {}
                                   /\ Min(EndsAfter(t)) + 2 - t > MinPreviewSize } }

\* the generic scan has been applied to the file
GenericScanDone == extractedJpeg # NoExtraction /\ fileFormat # "DNG"

\* C11: findBestJpegPreview pairs every start marker with the nearest end
\* marker after it, keeps the spans longer than 1024 bytes as candidates,
\* returns a largest candidate, and returns null if and only if there is no
\* candidate.
C11_LargestPreview ==
    GenericScanDone =>
        LET candidates == PreviewCandidates(rawData)
        IN  /\ extractedJpeg.found <=> candidates # {}
            /\ extractedJpeg.found =>
                   \E c \in candidates :
                       /\ extractedJpeg.bytes = Slice(rawData, c[1], c[2])
                       /\ \A d \in candidates : d[2] - d[1] <= c[2] - c[1]

\* a file with a span of 4 KiB and a span of 40 KiB, of which the scan
\* returned the one of 40 KiB
C11_Witness ==
    /\ GenericScanDone
    /\ extractedJpeg.found
    /\ Len(extractedJpeg.bytes) = 40960
    /\ { c[2] - c[1] : c \in PreviewCandidates(rawData) } = {4096, 40960}

\* data begins with the byte order mark of a TIFF file and has its 8 bytes
HasTiffHeader(data) ==
    /\ Len(data) >= 8
    /\ \/ data[1] = 73 /\ data[2] = 73
       \/ data[1] = 77 /\ data[2] = 77

----------------------------------------------------------------------------
(* The trash ledger: claims C13 to C20 *)

\* the ids of a request that have a sidecar in the trash the handler reads
MatchedIds(ids, trashFiles) == { id \in Range(ids) : \E m \in trashFiles : m.id = id }

IsMatched(id) ==
    \E m \in getAllTrashFiles(files, sidecars, currentScanDirectory) : m.id = id

\* an entry of the trash whose file and sidecar are both on disk
IsValidEntry(fs, sc, m) == FsExists(fs, m.tempPath) /\ FsExists(sc, MetadataPathOf(m))

\* C13: in restore-from-trash an id with no matching sidecar is a no-op: the
\* request is answered normally, nothing is restored for that id, the
\* filesystem ends as it does for the request without that id, and (when no
\* call of the request fails) every other id whose entries are whole is
\* restored to its original path.
C13_UnknownIdIsNoOp ==
    [][ (TrashStep("restore") /\ \E id \in Range(resp'.ids) : ~IsMatched(id)) =>
          LET trashFiles == getAllTrashFiles(files, sidecars, currentScanDirectory)
              known == SelectSeq(resp'.ids, IsMatched)
          IN  /\ resp'.status = 200
              /\ \A m \in resp'.entries : m.id \in MatchedIds(resp'.ids, trashFiles)
              /\ \E found \in FindChoices(trashFiles, known) :
                 \E faults \in [1..Len(known) -> RestoreFaults] :
                    LET r == RestoreLoop(known, 1, files, sidecars, <<>>, found, faults)
                    IN  /\ files' = r.files
                        /\ sidecars' = r.sidecars
                        /\ resp'.entries = Range(r.restoredFiles)
              /\ NoFaultInStep =>
                    \A id \in MatchedIds(resp'.ids, trashFiles) :
                        (\A m \in trashFiles : m.id = id => IsValidEntry(files, sidecars, m))
                        => \E m \in resp'.entries :
                              /\ m.id = id
                              /\ FsExists(files', m.originalPath)
                              /\ ~FsExists(sidecars', MetadataPathOf(m))
    ]_vars

\* a restore of two ids, answered normally without any failure of a
\* filesystem call, that restored one of them only
C13_Witness ==
    /\ resp.op = "restore"
    /\ resp.status = 200
    /\ Len(resp.ids) = 2
    /\ resp.count = 1
    /\ faultCount = 0

\* the entries of the trash that were whole before the step and of which the
\* file or the sidecar is still there after it
LeftBehind ==
    { m \in getAllTrashFiles(files, sidecars, currentScanDirectory) :
        /\ IsValidEntry(files, sidecars, m)
        /\ FsExists(files', m.tempPath) \/ FsExists(sidecars', MetadataPathOf(m)) }

\* C14: empty-trash is answered normally whatever fails, and a failure on
\* one entry does not block the others: the whole entries left behind are at
\* most as many as the filesystem calls that failed in the request.
C14_EmptyTrashGoesOn ==
    [][ TrashStep("empty") =>
          /\ resp'.status = 200
          /\ Cardinality(LeftBehind) <= faultCount' - faultCount
    ]_vars

\* an empty-trash in which the file of one entry could not be deleted (it
\* is still in the trash with its sidecar) and another entry was deleted
C14_Witness ==
    /\ resp.op = "empty"
    /\ resp.status = 200
    /\ resp.count = 1
    /\ faultCount = 1
    /\ \E q \in TrashFileNames(files, currentScanDirectory) : FsExists(sidecars, q)

\* the trash the handler reads holds three whole entries and one sidecar
\* without file
ThreeValidOneOrphan ==
    LET trashFiles == getAllTrashFiles(files, sidecars, currentScanDirectory)
    IN  /\ Cardinality(trashFiles) = 4
        /\ Cardinality({ m \in trashFiles : IsValidEntry(files, sidecars, m) }) = 3
        /\ Cardinality({ m \in trashFiles : ~FsExists(files, m.tempPath) }) = 1
        /\ \A q \in TrashFileNames(files, currentScanDirectory) : FsExists(sidecars, q)

\* C15 as stated: empty-trash over three whole entries and one orphaned
\* sidecar reports deletedCount = 2 and does not throw.
C15_PurgeCountAsStated ==
    [][ (TrashStep("empty") /\ NoFaultInStep /\ ThreeValidOneOrphan) =>
          resp'.status = 200 /\ resp'.count = 2
    ]_vars

\* C15: empty-trash over three whole entries and one orphaned sidecar
\* reports deletedCount = 3, the files it deleted, and does not throw; the
\* three entries are gone and the orphaned sidecar stays.
C15_PurgeCount ==
    [][ (TrashStep("empty") /\ NoFaultInStep /\ ThreeValidOneOrphan) =>
          /\ resp'.status = 200
          /\ resp'.count = 3
          /\ TrashFileNames(files', currentScanDirectory) = {}
          /\ Cardinality(TrashFileNames(sidecars', currentScanDirectory)) = 1
    ]_vars

\* the trash of three whole entries and one orphan has been emptied without
\* any failure of a filesystem call
C15_Witness ==
    /\ resp.op = "empty"
    /\ resp.status = 200
    /\ resp.count = 3
    /\ faultCount = 0
    /\ FsExists(sidecars, TrashPath("R1", 0, SurvivorNames[4]))
    /\ \A k \in 1..3 : ~FsExists(sidecars, TrashPath("R1", 0, SurvivorNames[k]))

\* the ids of a move request that the backend did not list as moved
NotMoved(r) == Range(r.ids) \ { m.id : m \in r.entries }

\* C16 as stated: after a request that moved only part of the selection the
\* message does not count the whole selection as moved, and the photos that
\* were not moved stay in the photo list.
C16_PartialResultShown ==
    [][ (TrashStep("move") /\ NotMoved(resp') # {}) =>
          /\ ~(alert'.kind = "success" /\ alert'.count = Len(resp'.ids))
          /\ NotMoved(resp') \cap photoList \subseteq photoList'
    ]_vars

\* C17 as stated: the records a move-to-trash request moves get trash paths
\* that differ from each other and from every file and sidecar already in
\* the trash, so that nothing trashed is overwritten.
C17_CollisionFreeNames ==
    [][ TrashStep("move") =>
          /\ \A m1, m2 \in resp'.entries : m1.id # m2.id => m1.tempPath # m2.tempPath
          /\ \A m \in resp'.entries :
                ~FsExists(files, m.tempPath) /\ ~FsExists(sidecars, m.tempPath)
    ]_vars

----------------------------------------------------------------------------
(* The duplicate clusterer: claim C18 *)

\* the position of an id in the fingerprint map
IndexOf(id) == CHOOSE k \in DOMAIN hashes : hashes[k].id = id

\* the similarity of the fingerprints of two ids meets the threshold
SimilarEnough(id1, id2) ==
    calculateSimilarity64(hashes[IndexOf(id1)].hash, hashes[IndexOf(id2)].hash)
        >= MaxDistance * threshold

\* C18: in every group of findDuplicateGroups the first member is the
\* earliest id of the group in map order, every other member is a later id
\* that belongs to no earlier group and whose similarity to the first member
\* meets the threshold; so an id whose similarity to the seed is below the
\* threshold is not in the group, whatever its similarity to other members.
C18_SeedComparison ==
    threshold > 0 =>
        \A g \in DOMAIN groups :
            LET seed == groups[g].photos[1]
            IN  \A n \in 2..Len(groups[g].photos) :
                    LET member == groups[g].photos[n]
                    IN  /\ IndexOf(seed) < IndexOf(member)
                        /\ SimilarEnough(seed, member)
                        /\ \A e \in 1..(g - 1) : member \notin Range(groups[e].photos)

\* a group whose seed has a member, and an id outside of it that is similar
\* enough to that member but not to the seed
C18_Witness ==
    /\ threshold > 0
    /\ \E g \in DOMAIN groups :
       \E n \in 2..Len(groups[g].photos) :
       \E c \in DOMAIN hashes :
          /\ hashes[c].id \notin Range(groups[g].photos)
          /\ IndexOf(groups[g].photos[n]) < c
          /\ SimilarEnough(groups[g].photos[n], hashes[c].id)
          /\ ~SimilarEnough(groups[g].photos[1], hashes[c].id)

----------------------------------------------------------------------------
(* The trash ledger: claims C19, C20 *)

\* the sidecars a step wrote: those that are new or have new content
WrittenSidecars ==
    { q \in DOMAIN sidecars' : ~FsExists(sidecars, q) \/ sidecars[q] # sidecars'[q] }

\* C19: every sidecar a move-to-trash request writes is the sidecar of a
\* record whose file the request has moved: the file was at its original
\* path before, is not there any more and is at the trash path; a record
\* whose file stays at its original path or whose move failed gets none.
C19_SidecarAfterMove ==
    [][ TrashStep("move") =>
          \A q \in WrittenSidecars :
              /\ sidecars'[q].tempPath = q
              /\ FsExists(files, sidecars'[q].originalPath)
              /\ ~FsExists(files', sidecars'[q].originalPath)
              /\ FsExists(files', q)
    ]_vars

\* a request for two photos, the rename of one of them failing: the other
\* one is in the trash with its sidecar, the one that failed is at its
\* original path and has no sidecar
C19_Witness ==
    /\ resp.op = "move"
    /\ Len(resp.ids) = 2
    /\ resp.count = 1
    /\ faultCount = 1
    /\ \E id \in Range(resp.ids) :
          /\ PhotoOf(id).path # NoPath
          /\ FsExists(files, PhotoOf(id).path)
          /\ \A q \in DOMAIN sidecars : sidecars[q].id # id
    /\ \E m \in resp.entries : FsExists(sidecars, m.tempPath) /\ FsExists(files, m.tempPath)

\* C20 as stated: the result list of move-to-trash holds exactly the records
\* trashed completely, file in the trash and sidecar written; a record with
\* a failure of its own is not in it.
C20_ResultListIsComplete ==
    [][ TrashStep("move") =>
          \A m \in resp'.entries :
              /\ FsExists(files', m.tempPath)
              /\ FsExists(sidecars', m.tempPath)
              /\ sidecars'[m.tempPath] = m
    ]_vars

----------------------------------------------------------------------------
(* Re-analysis on a change of the threshold: claims C21, C28 *)

\* the last pending re-analysis runs
ReanalysisCompletes == timers # <<>> /\ timers' = <<>>

\* C21 as stated: once the re-analysis after a change of the threshold has
\* completed, a photo of the list carries group g exactly if
\* findDuplicateGroups over the whole cache at the new threshold puts it in
\* g, and carries no flag otherwise.
C21_FlagsFollowCache ==
    [][ ReanalysisCompletes =>
          flags' = FlagsFor(photoList', cachedHashes', appThreshold')
    ]_vars

\* the photos deleted since the render the pending callback closes over
DeletedWhilePending == Head(timers).photos \ photoList

\* C28 as stated: a photo deleted while the re-analysis is pending is not in
\* the photo list after the re-analysis has completed.
C28_DeletedStayDeleted ==
    [][ ReanalysisCompletes => DeletedWhilePending \cap photoList' = {} ]_vars

----------------------------------------------------------------------------
(* The fingerprint: claim C22 *)

\* the luminance of row r, column c of the grid, both counted from 0
Lum(r, c) == luminance[r * 9 + c + 1]

\* the bit of row r and column c as the specification defines it
SpecBit(r, c) == IF Lum(r, c) < Lum(r, c + 1) THEN 1 ELSE 0

\* the value of the hex digit that encodes the bits 4n .. 4n+3 of row r
SpecDigit(r, n) ==
    8 * SpecBit(r, 4 * n) + 4 * SpecBit(r, 4 * n + 1)
        + 2 * SpecBit(r, 4 * n + 2) + SpecBit(r, 4 * n + 3)

IsFlat == \A i \in DOMAIN luminance : luminance[i] = luminance[1]

\* C22: the fingerprint of a 9x8 luminance grid has 16 hex characters; in
\* row-major order they encode the 64 bits, the bit of row r and column c
\* being 1 exactly if the luminance at column c is strictly less than the
\* one at column c+1 of the row; a flat grid gives the all-zero fingerprint.
C22_FingerprintBits ==
    imageHash # NoFingerprint =>
        /\ Len(imageHash.hash) = 16
        /\ \A r \in 0..7 : \A n \in 0..1 :
              ParseHex(imageHash.hash[2 * r + n + 1]) = SpecDigit(r, n)
        /\ IsFlat => \A i \in 1..16 : imageHash.hash[i] = "0"

\* a computed fingerprint of a grid with a row that has equal neighbours,
\* a rise and a fall, next to a row that is flat
C22_Witness ==
    /\ imageHash # NoFingerprint
    /\ \E c \in 0..7 : Lum(0, c) = Lum(0, c + 1)
    /\ \E c \in 0..7 : Lum(0, c) < Lum(0, c + 1)
    /\ \E c \in 0..7 : Lum(0, c) > Lum(0, c + 1)
    /\ \A c \in 0..7 : Lum(1, c) = Lum(1, c + 1)
    /\ \E i \in 1..16 : imageHash.hash[i] \notin {"0", "f"}

----------------------------------------------------------------------------
(* The progress of a scan: claims C23, C30 *)

\* scanDirectory has passed its guard and reset the progress
ScanStarts == ~isScanning /\ isScanning' /\ progress' = NewProgress

\* a turn of the second pass has taken a file off the list
FileProcessed ==
    \E r \in ScanSlots : scans'[r].todo # scans[r].todo /\ scans'[r].todo \subseteq scans[r].todo

\* C23: within one scan processedFiles never decreases, goes up by exactly
\* one for every enumerated file, processed or failed, never exceeds
\* totalFiles and equals totalFiles when the phase becomes 'complete'.
C23_ProcessedCounter ==
    [][ ~ScanStarts =>
          /\ progress'.processedFiles >= progress.processedFiles
          /\ FileProcessed => progress'.processedFiles = progress.processedFiles + 1
          /\ ~FileProcessed => progress'.processedFiles = progress.processedFiles
          /\ progress'.processedFiles <= progress'.totalFiles
          /\ progress'.phase = "complete" =>
                progress'.processedFiles = progress'.totalFiles
    ]_vars

\* a completed scan of two files, one of which could not be processed
C23_Witness ==
    /\ progress.phase = "complete"
    /\ progress.totalFiles = 2
    /\ progress.processedFiles = 2
    /\ \E r \in ScanSlots : scans[r].status = 200 /\ scans[r].photos = 1

\* no scanDirectory call is between its guard and its end
NoScanInFlight == \A r \in ScanSlots : scans[r].pc = "idle"

\* a request with a path arrives while no call is in flight
CallWhileFree ==
    /\ NoScanInFlight
    /\ requestCount' = requestCount + 1
    /\ \E r \in ScanSlots : scans'[r].request = requestCount' /\ scans'[r].path # Null

\* C30: the scan lock is always released: when the scanDirectory calls
\* have ended, with their result or with an exception, isScanning is false,
\* a scanDirectory call made then is accepted, and a scan that holds the
\* lock gives it up again, so that the scanner never rejects for ever.
C30_LockReleased ==
    /\ [](NoScanInFlight => ~isScanning)
    /\ [][ CallWhileFree =>
             \E r \in ScanSlots : scans'[r].request = requestCount'
                                  /\ scans'[r].pc = "setup" /\ isScanning' ]_vars
    /\ (isScanning ~> ~isScanning)

\* a call has ended with the exception of mkdir and the call after it has
\* been accepted and runs
C30_Witness ==
    \E r1, r2 \in ScanSlots :
        /\ scans[r1].pc = "idle"
        /\ scans[r1].error = SetupError
        /\ scans[r2].request > scans[r1].request
        /\ scans[r2].pc = "analyzing"
        /\ isScanning

----------------------------------------------------------------------------
(* The groups of findDuplicateGroups: claims C25, C26 *)

\* C25: every group findDuplicateGroups returns has more than one member,
\* and the k-th group of the list has the id dup_group_k: the ids run from
\* 1 without a gap and without a repetition.
C25_SequentialGroups ==
    \A k \in DOMAIN groups :
        /\ Len(groups[k].photos) > 1
        /\ groups[k].id = k

\* a result of two groups, the seed of the second one coming after an id
\* of the first
C25_Witness ==
    /\ threshold > 0
    /\ groups = findDuplicateGroups(hashes, threshold)
    /\ Len(groups) = 2
    /\ groups[2].id = 2

\* C26: the groups findDuplicateGroups returns are pairwise disjoint and no
\* id is twice in one group.
C26_DisjointGroups ==
    /\ \A k, n \in DOMAIN groups :
          k # n => Range(groups[k].photos) \cap Range(groups[n].photos) = {}
    /\ \A k \in DOMAIN groups :
          \A a, b \in DOMAIN groups[k].photos :
              a # b => groups[k].photos[a] # groups[k].photos[b]

\* a group whose member is similar enough to a later seed as well: the
\* later seed stays alone or groups with others
C26_Witness ==
    /\ threshold > 0
    /\ groups = findDuplicateGroups(hashes, threshold)
    /\ \E g \in DOMAIN groups :
       \E n \in 2..Len(groups[g].photos) :
       \E c \in DOMAIN hashes :
          /\ hashes[c].id \notin Range(groups[g].photos)
          /\ c < IndexOf(groups[g].photos[n])
          /\ IndexOf(groups[g].photos[1]) < c
          /\ SimilarEnough(groups[g].photos[n], hashes[c].id)

----------------------------------------------------------------------------
(* Decode failures in detectDuplicatesInAnalyzableFiles: claim C24 *)

\* the ids of the entries of the hashes map
HashedIds == { hashes[i].id : i \in DOMAIN hashes }

\* the ids of the members of the groups
GroupedIds == UNION { Range(groups[k].photos) : k \in DOMAIN groups }

\* the clustering pass has run
Clustered == threshold > 0

\* C24: a file whose fingerprint could not be computed, calculateImageHash
\* giving null or throwing, has no entry in the hashes map and is in no
\* group; every other file of the batch has its entry, and the clustering
\* pass runs over all the fingerprints obtained.
C24_DecodeFailureSkipped ==
    /\ \A i \in DOMAIN analyzed :
          IF analyzed[i] \in DecodeFailures
          THEN PhotoIdAt(i) \notin HashedIds /\ PhotoIdAt(i) \notin GroupedIds
          ELSE \E k \in DOMAIN hashes : hashes[k].id = PhotoIdAt(i)
    /\ Len(hashes) = Cardinality({ i \in DOMAIN analyzed : analyzed[i] \notin DecodeFailures })
    /\ Clustered => groups = findDuplicateGroups(hashes, threshold)

\* a batch of four files, the first resolving null and the third throwing,
\* whose second and fourth file have been grouped
C24_Witness ==
    /\ Clustered
    /\ Len(analyzed) = 4
    /\ analyzed[1] = "null"
    /\ analyzed[3] = "threw"
    /\ Len(groups) = 1
    /\ Range(groups[1].photos) = {PhotoIdAt(2), PhotoIdAt(4)}

----------------------------------------------------------------------------
(* The trash across scans: claim C27 *)

\* the entries trash-status lists and restoreFromTrash can find
ListedPaths ==
    { m.tempPath : m \in getAllTrashFiles(files, sidecars, currentScanDirectory) }

\* C27 as stated: a file moved to trash, until it is restored or purged,
\* stays listed by trash-status and restorable by restoreFromTrash, whatever
\* scan requests are made in between, a scan of another directory included:
\* every sidecar on disk is among the entries the handlers read.
C27_TrashStaysListed ==
    \A q \in DOMAIN sidecars : q \in ListedPaths

----------------------------------------------------------------------------
(* RAW and JPEG pairing: claim C29 *)

\* the places of the result a file is in
PlacesOf(file) ==
    Cardinality({ k \in DOMAIN pairing.pairs : pairing.pairs[k].jpegFile = file })
    + Cardinality({ k \in DOMAIN pairing.pairs : pairing.pairs[k].rawFile = file })
    + Cardinality({ k \in DOMAIN pairing.singleFiles : pairing.singleFiles[k].file = file })

\* C29 as stated: groupRawJpegPairs loses no file: every image file of the
\* list is in exactly one place of the result, the jpegFile or rawFile of
\* one pair or one entry of singleFiles, in any order of the files and also
\* when several files share a base name.
C29_NoFileLost ==
    pairing # NoPairing =>
        \A i \in DOMAIN fileList : IsImage(fileList[i]) => PlacesOf(fileList[i]) = 1

====
